---- MODULE Spec2Model ----
(***************************************************************************)
(* The request adapter of documentdb-typescript: curryPromise (Util.ts)    *)
(* wraps a callback-style operation as a promise, throttles the number of  *)
(* admitted calls by Client.concurrencyLimit, arms a timer per attempt and *)
(* retries failed attempts.  One event-loop job (a call, a timer firing, a *)
(* completion callback, a promise reaction) is one action.                 *)
(***************************************************************************)
EXTENDS Integers, Sequences, FiniteSets, TLC

\* ------------------------------------------------------------- bounds
\* calls issued in a burst (specification Spec)
NCalls == 2
\* largest concurrency ceiling tried in a burst
MaxLimit == 1
\* largest maxRetries argument tried for a single call (specification SpecRetry)
MaxRetries == 3

Calls == 1 .. NCalls
\* the calls of a burst and one call issued after them
Requests == 1 .. NCalls + 1

\* error codes the wrapped operation may report: the seven the adapter
\* names, the rate-limit code and one other server error
Codes == {400, 401, 403, 404, 409, 412, 413, 429, 503}
BurstCodes == {503}
\* maxRetries arguments tried in a burst
BurstBudgets == {0, 1}
\* attempt numbers a call of a burst can reach
BurstAttempts == {1, 2}
\* the same for a burst followed by a late call (specification SpecQueue)
QueueBudgets == {0}
QueueAttempts == {1}
\* error codes, maxRetries and retryTimer arguments tried with headers
\* and bodies (specification SpecReport)
ReportCodes == {412, 429, 503}
ReportBudgets == {0, 1, 2}
ReportAttempts == {1, 2, 3}
RetryTimers == {0, 20}

\* a header value is a sequence of characters, a body a sequence of JSON
\* tokens; the empty sequence also stands for a value that is missing
\* (undefined), which is as falsy as "" and as unparseable
NoHeader == <<>>
NoBody == <<>>
\* values of the header x-ms-retry-after-ms the server may send: none,
\* numbers, a number followed by something else, no number at all
Headers == {NoHeader, <<"5">>, <<"2", "5">>, <<"7", "m", "s">>, <<"x">>}
\* err.body as the server may send it, by what JSON.parse makes of it:
\* none, text that is no JSON, the JSON texts null and 5, and objects
\* with code and message, without message, with an empty message
Bodies == {NoBody, <<"plain">>, <<"null">>, <<"5">>,
           <<"{", "code", "message", "}">>, <<"{", "code", "}">>,
           <<"{", "code", "message:empty", "}">>}

\* what an operation hands to its callback: (err, result, headers);
\* err has a code and a body, headers the retry-after header
Report(e, k, h, b) == [err |-> e, code |-> k, hdr |-> h, body |-> b]
OutcomesWith(codes, headers, bodies) ==
    {Report(FALSE, 0, NoHeader, NoBody)}
        \cup {Report(TRUE, k, h, b) : k \in codes, h \in headers, b \in bodies}
\* reports without a retry-after header and without a body
Outcomes(codes) == OutcomesWith(codes, {NoHeader}, {NoBody})

\* ------------------------------------------------------------- state
VARIABLES
    _pending,          \* var _pending: admitted, unsettled requests (process-wide)
    concurrencyLimit,  \* Client.concurrencyLimit
    issued,            \* issued[c]: the curried function was called for c
    maxRetries,        \* maxRetries argument of curryPromise, per call
    retryOn404,        \* retryOn404 argument of curryPromise, per call
    retryTimer,        \* retryTimer argument of curryPromise, per call (0 = omitted)
    fixedPos,          \* the wrapped operation takes its callback at a fixed position
    started,           \* closure variable started
    done,              \* closure variable done (truthiness)
    retries,           \* closure variable retries
    timeoutTimer,      \* closure variable timeoutTimer: attempt that set it, 0 = undefined
    args,              \* callbacks pushed onto args so far (by attempt number)
    retried,           \* attempts whose local flag retried is true
    timers,            \* attempts whose timeout timer is armed (not fired, not cleared)
    execTimers,        \* armed setTimeout(exec): who armed it (0 = admission check)
    execDelay,         \* the delay each armed setTimeout(exec) was given
    running,           \* invocations of f that have not called a callback yet
    promise,           \* the promise whose executor is exec
    returned,          \* the promise returned to the caller (after .then)
    microtasks,        \* queued promise reactions (calls whose .then handler is due)
    log,               \* history: what happened to each call, in order
    \* Client (Client.ts)
    exists,            \* exists[i]: instance i has been constructed
    config,            \* url, authenticationOptions, connectionPolicy, consistencyLevel
    _closed,           \* Client._closed
    _client,           \* Client._client: the native DocumentClient (0 = undefined)
    _open,             \* Client._open: the promise, named by the instance that made it (0 = undefined)
    _openClients,      \* var _openClients: key -> instance (0 = no entry)
    natives,           \* native DocumentClient instances constructed so far
    connect,           \* connect[i]: the adapter call made by openAsync of i (0 = none)
    result,            \* what the last openAsync returned or threw
    closedSince,       \* history: key -> close() was called on an opened instance
                       \* and no instance has been opened for the key since
    timeout,           \* Client.timeout
    _databaseResources,\* Client._databaseResources: a promise for the list
    _resolve_databases,\* Client._resolve_databases: the promise that function resolves
    resources,         \* the promises for database lists: pending, or the list
    openState,         \* state of the promise made by openAsync of an instance
    create,            \* the call of createDatabaseAsync on an instance
    \* the account
    server,            \* ids of the databases that exist
    payload,           \* payload[c]: the list the operation of call c reported
    \* Database (Database.ts)
    db,                \* the Database object and the call of openOrCreateAsync on it
    \* DocumentStream (DocumentStream.ts) and its query iterator
    stream,            \* _qiP resolved, _qi set, _nextP, the iterator's position
    reads,             \* reads[k]: the k-th call of next() and the promise it chained
    jobs,              \* the reactions and continuations that are ready to run, in order
    each               \* the call of forEach

vars == <<_pending, concurrencyLimit, issued, maxRetries, retryOn404, retryTimer,
          fixedPos, started, done, retries, timeoutTimer, args, retried, timers,
          execTimers, execDelay, running, promise, returned, microtasks, log,
          exists, config, _closed, _client, _open, _openClients, natives,
          connect, result, closedSince, timeout, _databaseResources,
          _resolve_databases, resources, openState, create, server, payload, db,
          stream, reads, jobs, each>>

\* the state of the classes built on the adapter
clientVars == <<exists, config, _closed, _client, _open, _openClients, natives,
                connect, result, closedSince, timeout, _databaseResources,
                _resolve_databases, resources, openState>>
createVars == <<create>>
serverVars == <<server, payload>>
streamVars == <<stream, reads, jobs, each>>
upperVars == <<db, streamVars>>
layerVars == <<clientVars, createVars, serverVars, upperVars>>

params == <<concurrencyLimit, maxRetries, retryOn404, retryTimer, fixedPos>>

\* ------------------------------------------------------------- values
\* what a promise is settled with: n is the result's invocation, the
\* error's code or the throwing attempt; message and name are those of an
\* Error made by the adapter, body the body of an error of the operation
Undefined == "undefined"
Value(k, n, m, nm, b) == [kind |-> k, n |-> n, message |-> m, name |-> nm, body |-> b]
NoValue == Value("none", 0, Undefined, Undefined, NoBody)
ResultValue(a) == Value("result", a, Undefined, Undefined, NoBody)
\* the error object err of a report, as the operation made it
RawError(code, b) == Value("error", code, Undefined, Undefined, b)
ErrorValue(code) == RawError(code, NoBody)
ThrownValue(a) == Value("thrown", a, Undefined, Undefined, NoBody)
TimeoutValue == Value("Timeout", 0, "Timeout", "Error", NoBody)

PendingPromise == [state |-> "pending", val |-> NoValue]

\* mutant: a later resolve()/reject() overwrites the outcome
SettleOverwrites(p, st, v) == [state |-> st, val |-> v]

\* resolve()/reject() of a promise: only the first one counts
Settle(p, st, v) ==
    IF p.state = "pending" THEN [state |-> st, val |-> v] ELSE p

\* ------------------------------------------------------------- pure parts
\* mutant: 412 (precondition failed) is left out of the list
RetryableWithout412(code, r404) ==
    /\ code # 400 /\ code # 401
    /\ code # 403 /\ (r404 \/ code # 404)
    /\ code # 409 /\ code # 413

\* mutant: 404 is never retried, the flag is ignored
RetryableIgnoringFlag(code, r404) ==
    /\ code # 400 /\ code # 401
    /\ code # 403 /\ code # 404
    /\ code # 409 /\ code # 412
    /\ code # 413

\* the error classification of the completion callback
Retryable(code, r404) ==
    /\ code # 400 /\ code # 401
    /\ code # 403 /\ (r404 \/ code # 404)
    /\ code # 409 /\ code # 412
    /\ code # 413

\* mutant: the last unit of the budget is never used
BudgetLeftOffByOne(r) == r > 1

\* mutant: one retry more than the budget
BudgetLeftOneMore(r) == r >= 0

\* retries-- > 0: the test reads the value before the decrement
BudgetLeft(r) == r > 0

\* mutant: the admission check lets one call too many through
AtCeilingOffByOne(p, limit) == p > limit

\* mutant: a call is also held back while another call is waiting
AtCeilingOrQueued(p, limit) ==
    p >= limit \/ \E d \in Requests : issued[d] /\ ~started[d]

\* _pending >= Client.concurrencyLimit
AtCeiling(p, limit) == p >= limit

\* JSON.parse(err.body) inside try/catch: the parsed value, undefined
\* when parsing throws.  truthy is the value's truthiness, message and
\* code its properties of those names (Undefined when it has none).
Parsed(t, m, k) == [truthy |-> t, message |-> m, code |-> k]
Member(b, tok, v) ==
    IF \E i \in 2 .. (Len(b) - 1) : b[i] = tok THEN v ELSE Undefined
JSONParse(b) ==
    IF Len(b) >= 2 /\ b[1] = "{" /\ b[Len(b)] = "}"
    THEN Parsed(TRUE,
                IF \E i \in 2 .. (Len(b) - 1) : b[i] = "message:empty"
                THEN "" ELSE Member(b, "message", "msg"),
                Member(b, "code", "Code"))
    ELSE IF b = <<"5">> THEN Parsed(TRUE, Undefined, Undefined)
    ELSE Parsed(FALSE, Undefined, Undefined)

\* mutant: a body without a message gives an error without a message
MessageOfAsIs(m) == m

\* body.message || "Database error"
MessageOf(m) == IF m = Undefined \/ m = "" THEN "Database error" ELSE m

\* error || err: the value the error callback rejects with
RejectionValue(out) ==
    LET body == JSONParse(out.body) IN
    IF body.truthy
    THEN Value("Error", out.code, MessageOf(body.message), body.code, NoBody)
    ELSE RawError(out.code, out.body)

\* parseFloat on a header value: the number its leading digits spell,
\* NaN when it does not start with a digit (signs, fractions, exponents
\* and leading blanks are not among the header values tried)
NaN == -1
DigitOf(ch) ==
    CASE ch = "0" -> 0 [] ch = "1" -> 1 [] ch = "2" -> 2 [] ch = "3" -> 3
      [] ch = "4" -> 4 [] ch = "5" -> 5 [] ch = "6" -> 6 [] ch = "7" -> 7
      [] ch = "8" -> 8 [] ch = "9" -> 9 [] OTHER -> NaN
RECURSIVE ParseDigits(_, _)
ParseDigits(h, acc) ==
    IF h = <<>> \/ DigitOf(Head(h)) = NaN THEN acc
    ELSE ParseDigits(Tail(h), 10 * acc + DigitOf(Head(h)))
ParseFloat(h) ==
    IF h = <<>> \/ DigitOf(Head(h)) = NaN THEN NaN ELSE ParseDigits(h, 0)

\* retryTimer || 100, retryTimer = 0 standing for an omitted argument too
DefaultDelay == 100
ConfiguredDelay(rt) == IF rt = 0 THEN DefaultDelay ELSE rt

\* mutant: the retry-after header is honoured whatever the error code
RetryDelayAnyCode(out, rt) ==
    IF out.err /\ out.hdr # NoHeader
    THEN ParseFloat(out.hdr) ELSE ConfiguredDelay(rt)

\* the delay retry(err, headers) passes to setTimeout; a timer calls
\* retry() with no arguments, which is a report with err unset
RetryDelay(out, rt) ==
    IF out.err /\ out.code = 429 /\ out.hdr # NoHeader
    THEN ParseFloat(out.hdr) ELSE ConfiguredDelay(rt)

\* t === timeoutTimer
TimerIsCurrent(t, tt) == t = tt

\* the callback an invocation with the first n pushed callbacks reaches:
\* the caller's leading arguments come first, so an operation reading a
\* fixed position sees the first callback pushed, one reading its last
\* argument sees the newest
CallbackAt(as, n, fixed) == IF fixed THEN as[1] ELSE as[n]

\* ------------------------------------------------------------- fragments
\* resolve(v) / reject(v) on the executor's promise; the reaction of
\* .then is queued when the promise changes state
SettlePromise(c, st, v) ==
    /\ promise' = [promise EXCEPT ![c] = Settle(@, st, v)]
    /\ microtasks' = IF promise[c].state = "pending"
                     THEN Append(microtasks, c) ELSE microtasks

\* mutant: the timeout timer is one variable of the module, so clearing
\* it disarms the timers of every call
ClearTimeoutTimerOfAll(c, tm) ==
    /\ timers' = [d \in Requests |-> IF d = c THEN tm \ {timeoutTimer[c]} ELSE {}]
    /\ timeoutTimer' = [d \in Requests |-> 0]

\* clearTimeoutTimer(), on the armed timers tm
ClearTimeoutTimer(c, tm) ==
    /\ timers' = [timers EXCEPT ![c] = tm \ {timeoutTimer[c]}]
    /\ timeoutTimer' = [timeoutTimer EXCEPT ![c] = 0]

\* setTimeout(exec, t, resolve, reject) by k (0 = the admission check),
\* et being the armed exec timers of c it is added to
ArmExec(c, et, k, t) ==
    /\ execTimers' = [execTimers EXCEPT ![c] = et \cup {k}]
    /\ execDelay' = [execDelay EXCEPT ![c] =
            {d \in @ : d.by \in et} \cup {[by |-> k, t |-> t]}]

\* an exec timer has fired and nothing is armed in its place
DropExec(c, et) ==
    /\ execTimers' = [execTimers EXCEPT ![c] = et]
    /\ execDelay' = [execDelay EXCEPT ![c] = {d \in @ : d.by \in et}]

\* what retry() is given when a timeout timer calls it: no err, no headers
NoReport == Report(FALSE, 0, NoHeader, NoBody)

\* mutant: the flag retried is shared by all attempts of the call
RetrySharedFlag(c, k, tm, out) ==
    IF retried[c] # {}
    THEN /\ timers' = [timers EXCEPT ![c] = tm]
         /\ UNCHANGED <<retried, timeoutTimer, execTimers, execDelay>>
    ELSE /\ retried' = [retried EXCEPT ![c] = @ \cup {k}]
         /\ ClearTimeoutTimer(c, tm)
         /\ ArmExec(c, execTimers[c], k, RetryDelay(out, retryTimer[c]))

\* mutant: retry() clears the timeout timer and schedules nothing
RetryWithoutExec(c, k, tm, out) ==
    IF k \in retried[c]
    THEN /\ timers' = [timers EXCEPT ![c] = tm]
         /\ UNCHANGED <<retried, timeoutTimer, execTimers, execDelay>>
    ELSE /\ retried' = [retried EXCEPT ![c] = @ \cup {k}]
         /\ ClearTimeoutTimer(c, tm)
         /\ UNCHANGED <<execTimers, execDelay>>

\* retry(err, headers) of attempt k, on the armed timers tm
Retry(c, k, tm, out) ==
    IF k \in retried[c]
    THEN /\ timers' = [timers EXCEPT ![c] = tm]
         /\ UNCHANGED <<retried, timeoutTimer, execTimers, execDelay>>
    ELSE /\ retried' = [retried EXCEPT ![c] = @ \cup {k}]
         /\ ClearTimeoutTimer(c, tm)
         /\ ArmExec(c, execTimers[c], k, RetryDelay(out, retryTimer[c]))

\* the completion callback pushed by attempt k, called by invocation a
Callback(c, k, a, out) ==
    IF out.err
    THEN IF Retryable(out.code, retryOn404[c]) /\ BudgetLeft(retries[c])
         THEN /\ retries' = [retries EXCEPT ![c] = @ - 1]
              /\ Retry(c, k, timers[c], out)
              /\ UNCHANGED <<promise, microtasks, done>>
         ELSE /\ retries' = [retries EXCEPT ![c] =
                    IF Retryable(out.code, retryOn404[c]) THEN @ - 1 ELSE @]
              /\ SettlePromise(c, "rejected", RejectionValue(out))
              /\ done' = [done EXCEPT ![c] = TRUE]
              /\ ClearTimeoutTimer(c, timers[c])
              /\ UNCHANGED <<retried, execTimers, execDelay>>
    ELSE /\ SettlePromise(c, "resolved", ResultValue(a))
         /\ done' = [done EXCEPT ![c] = TRUE]
         /\ ClearTimeoutTimer(c, timers[c])
         /\ UNCHANGED <<retries, retried, execTimers, execDelay>>

\* mutant: the counter is incremented by every attempt, retries included
AfterAdmitEveryAttempt(p, st) == p + 1

\* _pending++ on the first run of exec that passes the admission check
AfterAdmit(p, st) == IF st THEN p ELSE p + 1

\* mutant: the timeout timer is armed before the admission check
DeferArmsTimer(c, et) ==
    /\ ArmExec(c, et, 0, ConfiguredDelay(retryTimer[c]))
    /\ timeoutTimer' = [timeoutTimer EXCEPT ![c] = 1]
    /\ timers' = [timers EXCEPT ![c] = @ \cup {1}]
    /\ UNCHANGED <<_pending, started, args, running, promise, microtasks, log>>

\* mutant: a deferred admission check is not armed again
DeferWithoutRepoll(c, et) ==
    /\ DropExec(c, et)
    /\ UNCHANGED <<_pending, started, timeoutTimer, timers, args,
                   running, promise, microtasks, log>>

\* exec finds the ceiling reached: it re-arms itself and returns
Defer(c, et) ==
    /\ ArmExec(c, et, 0, ConfiguredDelay(retryTimer[c]))
    /\ UNCHANGED <<_pending, started, timeoutTimer, timers, args,
                   running, promise, microtasks, log>>

\* exec past the admission check: attempt number Len(args) + 1 arms its
\* timer, pushes its callback and invokes f with args
Attempt(c, et, throws) ==
    LET a == Len(args[c]) + 1 IN
    /\ DropExec(c, et)
    /\ _pending' = AfterAdmit(_pending, started[c])
    /\ started' = [started EXCEPT ![c] = TRUE]
    /\ timeoutTimer' = [timeoutTimer EXCEPT ![c] = a]
    /\ timers' = [timers EXCEPT ![c] = @ \cup {a}]
    /\ args' = [args EXCEPT ![c] = Append(@, a)]
    /\ IF throws
       THEN /\ SettlePromise(c, "rejected", ThrownValue(a))
            /\ log' = [log EXCEPT ![c] = Append(@, [a |-> a, o |-> "X"])]
            /\ UNCHANGED running
       ELSE /\ running' = [running EXCEPT ![c] = @ \cup {a}]
            /\ UNCHANGED <<promise, microtasks, log>>

\* one run of exec for call c; et are the armed exec timers of c left
\* when it runs, throws whether f.apply throws
Exec(c, et, throws) ==
    IF done[c]
    THEN /\ DropExec(c, et)
         /\ UNCHANGED <<_pending, started, timeoutTimer, timers, args,
                        running, promise, microtasks, log>>
    ELSE IF ~started[c] /\ AtCeiling(_pending, concurrencyLimit)
    THEN Defer(c, et)
    ELSE Attempt(c, et, throws)

\* ------------------------------------------------------------- actions
\* the curried function is called: the closure is created and exec runs
\* as the promise's executor
Issue(c, m, rt, r404, fx, throws) ==
    /\ ~issued[c]
    /\ \A d \in Requests : d < c => issued[d]
    /\ issued' = [issued EXCEPT ![c] = TRUE]
    /\ maxRetries' = [maxRetries EXCEPT ![c] = m]
    /\ retryTimer' = [retryTimer EXCEPT ![c] = rt]
    /\ retryOn404' = [retryOn404 EXCEPT ![c] = r404]
    /\ fixedPos' = [fixedPos EXCEPT ![c] = fx]
    /\ retries' = [retries EXCEPT ![c] = m]
    /\ Exec(c, execTimers[c], throws)
    /\ UNCHANGED <<concurrencyLimit, done, retried, returned>>

\* the application calls a curried function itself
Call(c, m, rt, r404, fx, throws) ==
    /\ Issue(c, m, rt, r404, fx, throws)
    /\ UNCHANGED layerVars

\* an armed setTimeout(exec, ...) fires
ExecFires(c, s, throws) ==
    /\ s \in execTimers[c]
    /\ microtasks = <<>>
    /\ Exec(c, execTimers[c] \ {s}, throws)
    /\ UNCHANGED <<params, issued, done, retries, retried, returned, layerVars>>

\* the timeout timer armed by attempt a fires
TimeoutFires(c, a) ==
    /\ a \in timers[c]
    /\ microtasks = <<>>
    /\ IF TimerIsCurrent(a, timeoutTimer[c])
       THEN /\ retries' = [retries EXCEPT ![c] = @ - 1]
            /\ log' = [log EXCEPT ![c] = Append(@, [a |-> a, o |-> "T"])]
            /\ IF BudgetLeft(retries[c])
               THEN /\ Retry(c, a, timers[c] \ {a}, NoReport)
                    /\ UNCHANGED <<promise, microtasks, done>>
               ELSE /\ SettlePromise(c, "rejected", TimeoutValue)
                    /\ done' = [done EXCEPT ![c] = TRUE]
                    /\ timers' = [timers EXCEPT ![c] = @ \ {a}]
                    /\ UNCHANGED <<timeoutTimer, retried, execTimers, execDelay>>
       ELSE /\ timers' = [timers EXCEPT ![c] = @ \ {a}]
            /\ UNCHANGED <<retries, log, promise, microtasks, done,
                           timeoutTimer, retried, execTimers, execDelay>>
    /\ UNCHANGED <<params, _pending, issued, started, args, running, returned,
                   layerVars>>

\* class of a report, as the log keeps it
ReportClass(c, out) ==
    IF ~out.err THEN "K"
    ELSE IF Retryable(out.code, retryOn404[c]) THEN "E" ELSE "N"

\* invocation a of the wrapped operation calls the callback it was given
Completes(c, a, out) ==
    /\ a \in running[c]
    /\ microtasks = <<>>
    /\ running' = [running EXCEPT ![c] = @ \ {a}]
    /\ log' = [log EXCEPT ![c] = Append(@, [a |-> a, o |-> ReportClass(c, out)])]
    /\ Callback(c, CallbackAt(args[c], a, fixedPos[c]), a, out)
    /\ UNCHANGED <<params, _pending, issued, started, args, returned>>

\* the operation of a call made by the application reports
OpCompletes(c, a, out) ==
    /\ Completes(c, a, out)
    /\ UNCHANGED layerVars

\* mutant: assigning the ceiling also resets the pending counter
SetConcurrencyLimitResetsPending(l) ==
    /\ l # concurrencyLimit
    /\ concurrencyLimit' = l
    /\ _pending' = 0
    /\ UNCHANGED <<issued, maxRetries, retryOn404, retryTimer, fixedPos, started,
                   done, retries, timeoutTimer, args, retried, timers, execTimers,
                   execDelay, running, promise, returned, microtasks, log, layerVars>>

\* the application assigns Client.concurrencyLimit
SetConcurrencyLimit(l) ==
    /\ l # concurrencyLimit
    /\ concurrencyLimit' = l
    /\ UNCHANGED <<_pending, issued, maxRetries, retryOn404, retryTimer, fixedPos,
                   started, done, retries, timeoutTimer, args, retried, timers,
                   execTimers, execDelay, running, promise, returned, microtasks, log,
                   layerVars>>

\* the reaction registered by .then runs: the counter is given back and
\* the returned promise takes the executor promise's outcome
ThenHandler ==
    /\ microtasks # <<>>
    /\ LET c == Head(microtasks) IN
         /\ _pending' = IF started[c] THEN _pending - 1 ELSE _pending
         /\ returned' = [returned EXCEPT ![c] = promise[c]]
    /\ microtasks' = Tail(microtasks)
    /\ UNCHANGED <<params, issued, started, done, retries, timeoutTimer, args,
                   retried, timers, execTimers, execDelay, running, promise, log,
                   layerVars>>

\* ------------------------------------------------------------- Client
\* Client instances; each makes at most one connect request
Clients == Requests
Undef == "undefined"
\* (url, masterKey, connectionPolicy, consistencyLevel) of the instances
\* constructed: all for one account, no policy, no consistency level
Configs == {[url |-> "a", masterKey |-> "k", connectionPolicy |-> Undef,
             consistencyLevel |-> Undef]}
\* new Client(): url "" and masterKey "<no_key>"
DefaultConfig == [url |-> "", masterKey |-> "<no_key>", connectionPolicy |-> Undef,
                  consistencyLevel |-> Undef]
\* the key of _openClients: url + ":" + JSON.stringify(authenticationOptions)
\* + ":" + JSON.stringify(connectionPolicy) + ":" + consistencyLevel, as
\* the sequence of its pieces
KeyOf(cfg) ==
    <<cfg.url, ":", "{masterKey:", cfg.masterKey, "}", ":",
      cfg.connectionPolicy, ":", cfg.consistencyLevel>>
Keys == {KeyOf(cfg) : cfg \in Configs}

\* public timeout = 40000
DefaultTimeout == 40000
\* openAsync(maxRetries = 3)
DefaultOpenRetries == 3
\* database ids
Ids == {"x"}

\* what a method gave its caller: a value it returned or an Error it threw
Returned(v) == [throws |-> "", val |-> v]
Threw(msg) == [throws |-> msg, val |-> 0]
NoResult == Returned(0)

\* the promises for lists of database resources: the one an instance is
\* constructed with, and the one each forced reload makes, named by the
\* call that reads the list for it
InitialResources(i) == <<"new", i>>
ReloadResources(c) == <<"reload", c>>
ResourcePromises ==
    {InitialResources(i) : i \in Clients} \cup {ReloadResources(c) : c \in Requests}
PendingList == [state |-> "pending", val |-> {}]
ResolvedList(l) == [state |-> "resolved", val |-> l]
\* resolve(l): only a pending promise takes the value
ResolveList(rs, p, l) ==
    IF rs[p] = PendingList THEN [rs EXCEPT ![p] = ResolvedList(l)] ELSE rs

\* an Error made by the classes above the adapter
ErrorOf(msg) == Value("Error", 0, msg, "Error", NoBody)
\* a call of createDatabaseAsync: where it stands, its argument, the local
\* times, the adapter call and the promise it awaits, the error it threw,
\* and as history the calls its polls made
NoCreate ==
    [pc |-> "none", id |-> "", times |-> 0, req |-> 0,
     awaits |-> InitialResources(1), error |-> NoValue, polls |-> {}]

\* the items of the largest result set of a query, and the calls of next()
Items == 1 .. NCalls
Reads == Requests
\* next === undefined: the result set is exhausted
EndOfSet == 0
\* the promise this._nextP starts with, Promise.resolve(true), is promise 0;
\* promise k is the one the k-th call of next() assigned to this._nextP
Promises == {0} \cup Reads
\* a promise of the chain: req is the adapter call its handler made, got
\* the item the iterator delivered to that call, reactions what is
\* registered on it, result the promise next() returned; array tells that
\* the call is a toArray(), and all is the array the iterator delivered
NoRead ==
    [pc |-> "none", pred |-> 0, req |-> 0, got |-> EndOfSet, state |-> "pending",
     item |-> EndOfSet, error |-> NoValue, reactions |-> <<>>,
     result |-> [state |-> "pending", item |-> EndOfSet, error |-> NoValue],
     array |-> FALSE, all |-> <<>>]
ResolvedTrue == [NoRead EXCEPT !.pc = "initial", !.state = "resolved"]
Job(t, k) == [t |-> t, k |-> k]
\* the stream as constructed: _qiP pending, _qi unset, _nextP the resolved
\* promise; of the iterator the size of its result set and its position;
\* as history the items delivered and the calls made
NoStream ==
    [qiP |-> FALSE, _qi |-> FALSE, _nextP |-> 0, size |-> 0, pos |-> 0,
     waiting |-> <<>>, delivered |-> <<>>, made |-> 0, resets |-> 0]
NoEach ==
    [pc |-> "none", k |-> 0, value |-> FALSE, seen |-> <<>>, rets |-> <<>>,
     error |-> NoValue]

InitStream ==
    /\ stream = NoStream
    /\ reads = [k \in Promises |-> IF k = 0 THEN ResolvedTrue ELSE NoRead]
    /\ jobs = <<>>
    /\ each = NoEach

\* the Database object: its id, client and _self, and of the call of
\* openOrCreateAsync where it stands, its maxRetries and forceReload, the
\* promise it awaits and the error it threw; of a call of openAsync or
\* deleteAsync which of the two it is (op) and the adapter call of the
\* delete request (req)
NoSelf == "undefined"
NoDatabase ==
    [pc |-> "none", id |-> "", client |-> 0, self |-> NoSelf, maxRetries |-> 0,
     forceReload |-> FALSE, awaits |-> InitialResources(1), error |-> NoValue,
     op |-> "none", req |-> 0]

\* no instance opened, no database made or looked for
ClientsUnopened ==
    /\ _closed = [i \in Clients |-> FALSE]
    /\ _client = [i \in Clients |-> 0]
    /\ _open = [i \in Clients |-> 0]
    /\ _openClients = [k \in Keys |-> 0]
    /\ natives = 0
    /\ connect = [i \in Clients |-> 0]
    /\ result = NoResult
    /\ closedSince = [k \in Keys |-> FALSE]
    /\ _databaseResources = [i \in Clients |-> InitialResources(i)]
    /\ _resolve_databases = [i \in Clients |-> InitialResources(i)]
    /\ resources = [p \in ResourcePromises |-> PendingList]
    /\ openState = [i \in Clients |-> "none"]
    /\ create = [i \in Clients |-> NoCreate]
    /\ server = {}
    /\ payload = [c \in Requests |-> {}]
    /\ db = NoDatabase

\* the instances in constructed, each with its configuration and timeout
\* assigned, none opened; no stream read
Constructed(constructed, cfg, t) ==
    /\ exists = [i \in Clients |-> i \in constructed]
    /\ config = [i \in Clients |-> IF i \in constructed THEN cfg ELSE DefaultConfig]
    /\ timeout = [i \in Clients |-> IF i \in constructed THEN t ELSE DefaultTimeout]
    /\ ClientsUnopened
    /\ InitStream

\* no instance constructed yet
InitClients == \E cfg \in Configs : Constructed({}, cfg, DefaultTimeout)

\* the adapter's variables, for the methods that make no request
adapterVars == <<_pending, concurrencyLimit, issued, maxRetries, retryOn404,
                 retryTimer, fixedPos, started, done, retries, timeoutTimer, args,
                 retried, timers, execTimers, execDelay, running, promise,
                 returned, microtasks, log>>

\* get isOpen
IsOpen(i) == _client[i] # 0 /\ ~_closed[i]

\* get documentClient: the native client, or the Error thrown
DocumentClient(i) ==
    IF _closed[i] THEN Threw("Client already closed")
    ELSE IF _client[i] = 0 THEN Threw("Document DB client is not connected")
    ELSE Returned(_client[i])

\* the adapter call the next curried function called will be
NextRequest == CHOOSE c \in Requests : ~issued[c] /\ \A d \in Requests : d < c => issued[d]

\* new Client(url, masterKey)
NewClient(i, cfg) ==
    /\ ~exists[i]
    /\ \A j \in Clients : j < i => exists[j]
    /\ exists' = [exists EXCEPT ![i] = TRUE]
    /\ config' = [config EXCEPT ![i] = cfg]
    /\ UNCHANGED <<_closed, _client, _open, _openClients, natives, connect, result,
                   closedSince, timeout, _databaseResources, _resolve_databases,
                   resources, openState, adapterVars, createVars, serverVars,
                   upperVars>>

\* mutant: an instance that finds the key in _openClients opens a
\* connection of its own all the same
OpenSharedAnew(i, other, m, throws) ==
    /\ \E c \in Requests : ~issued[c]
    /\ natives' = natives + 1
    /\ _client' = [_client EXCEPT ![i] = natives + 1]
    /\ _open' = [_open EXCEPT ![i] = i]
    /\ openState' = [openState EXCEPT ![i] = "pending"]
    /\ connect' = [connect EXCEPT ![i] = NextRequest]
    /\ result' = Returned(i)
    /\ closedSince' = [closedSince EXCEPT ![KeyOf(config[i])] = FALSE]
    /\ Issue(NextRequest, m, 0, FALSE, TRUE, throws)
    /\ UNCHANGED <<exists, config, _closed, _openClients, timeout,
                   _databaseResources, _resolve_databases, resources>>

\* openAsync finds another instance connected or connecting for the key
OpenShared(i, other, m, throws) ==
    /\ _client' = [_client EXCEPT ![i] = _client[other]]
    /\ _databaseResources' = [_databaseResources EXCEPT ![i] = _databaseResources[other]]
    /\ _open' = [_open EXCEPT ![i] = _open[other]]
    /\ result' = Returned(_open[other])
    /\ closedSince' = [closedSince EXCEPT ![KeyOf(config[i])] = FALSE]
    /\ UNCHANGED <<exists, config, _closed, _openClients, natives, connect, timeout,
                   _resolve_databases, resources, openState, adapterVars>>

\* openAsync registers the instance, constructs a native DocumentClient
\* and calls the curried tryConnect
OpenNew(i, m, throws) ==
    /\ \E c \in Requests : ~issued[c]
    /\ _openClients' = [_openClients EXCEPT ![KeyOf(config[i])] = i]
    /\ natives' = natives + 1
    /\ _client' = [_client EXCEPT ![i] = natives + 1]
    /\ _open' = [_open EXCEPT ![i] = i]
    /\ openState' = [openState EXCEPT ![i] = "pending"]
    /\ connect' = [connect EXCEPT ![i] = NextRequest]
    /\ result' = Returned(i)
    /\ closedSince' = [closedSince EXCEPT ![KeyOf(config[i])] = FALSE]
    /\ Issue(NextRequest, m, 0, FALSE, TRUE, throws)
    /\ UNCHANGED <<exists, config, _closed, timeout, _databaseResources,
                   _resolve_databases, resources>>

\* the body of openAsync(maxRetries)
Open(i, m, throws) ==
    /\ exists[i]
    /\ IF _closed[i]
       THEN /\ result' = Threw("Client already closed")
            /\ UNCHANGED <<exists, config, _closed, _client, _open, _openClients,
                           natives, connect, closedSince, timeout,
                           _databaseResources, _resolve_databases, resources,
                           openState, adapterVars>>
       ELSE IF _open[i] # 0
       THEN /\ result' = Returned(_open[i])
            /\ UNCHANGED <<exists, config, _closed, _client, _open, _openClients,
                           natives, connect, closedSince, timeout,
                           _databaseResources, _resolve_databases, resources,
                           openState, adapterVars>>
       ELSE IF _openClients[KeyOf(config[i])] # 0
       THEN OpenShared(i, _openClients[KeyOf(config[i])], m, throws)
       ELSE OpenNew(i, m, throws)

\* the application calls client.openAsync(maxRetries)
OpenAsync(i, m, throws) ==
    /\ Open(i, m, throws)
    /\ UNCHANGED <<createVars, serverVars, upperVars>>

\* the reaction openAsync registered on the connect call runs: the list
\* read resolves the promise of _resolve_databases, and the promise
\* openAsync returned takes the outcome
Connected(i) ==
    /\ openState[i] = "pending"
    /\ microtasks = <<>>
    /\ returned[connect[i]] # PendingPromise
    /\ IF returned[connect[i]].state = "resolved"
       THEN /\ resources' = ResolveList(resources, _resolve_databases[i],
                                        payload[connect[i]])
            /\ openState' = [openState EXCEPT ![i] = "resolved"]
       ELSE /\ openState' = [openState EXCEPT ![i] = "rejected"]
            /\ UNCHANGED resources
    /\ UNCHANGED <<exists, config, _closed, _client, _open, _openClients, natives,
                   connect, result, closedSince, timeout, _databaseResources,
                   _resolve_databases, adapterVars, createVars, serverVars, upperVars>>

\* mutant: close() leaves the flag _closed alone
CloseKeepsOpen(i) ==
    /\ exists[i]
    /\ _openClients' = [k \in Keys |-> IF _openClients[k] = i THEN 0 ELSE _openClients[k]]
    /\ closedSince' = [k \in Keys |->
                          closedSince[k] \/ (_open[i] # 0 /\ k = KeyOf(config[i]))]
    /\ UNCHANGED <<exists, config, _closed, _client, _open, natives, connect, result,
                   timeout, _databaseResources, _resolve_databases, resources,
                   openState, adapterVars, createVars, serverVars, upperVars>>

\* client.close()
Close(i) ==
    /\ exists[i]
    /\ _closed' = [_closed EXCEPT ![i] = TRUE]
    /\ _openClients' = [k \in Keys |-> IF _openClients[k] = i THEN 0 ELSE _openClients[k]]
    /\ closedSince' = [k \in Keys |->
                          closedSince[k] \/ (_open[i] # 0 /\ k = KeyOf(config[i]))]
    /\ UNCHANGED <<exists, config, _client, _open, natives, connect, result,
                   timeout, _databaseResources, _resolve_databases, resources,
                   openState, adapterVars, createVars, serverVars, upperVars>>

\* ------------------------------------------------------------- createDatabaseAsync
\* the wait between two polls: sleepAsync(100)
PollInterval == 100
\* mutant: the number of polls rounded down
PollsRoundedDown(t) == t \div PollInterval
\* Math.ceil(this.timeout / 100)
Polls(t) == (t + PollInterval - 1) \div PollInterval

\* the frame of a step of createDatabaseAsync that makes no adapter call
CreateOnly ==
    UNCHANGED <<exists, config, _closed, _client, _open, _openClients, natives,
                connect, result, closedSince, timeout, _databaseResources,
                _resolve_databases, openState, adapterVars, serverVars>>

\* listDatabasesAsync(true) on an opened instance, up to its first await:
\* a new promise for the list, and the curried tryReadDBs called
ForceReload(i, c) ==
    /\ _databaseResources' = [_databaseResources EXCEPT ![i] = ReloadResources(c)]
    /\ _resolve_databases' = [_resolve_databases EXCEPT ![i] = ReloadResources(c)]
    /\ Issue(c, 0, 0, FALSE, TRUE, FALSE)

\* while (times-- > 0) { var dbs = await this.listDatabasesAsync(true) ...
\* and, when the loop ends, throw new Error("Timeout")
Poll(i) ==
    LET cr == create[i] IN
    IF cr.times > 0
    THEN /\ \E c \in Requests : ~issued[c]
         /\ ForceReload(i, NextRequest)
         /\ create' = [create EXCEPT ![i] =
                [cr EXCEPT !.pc = "reading", !.times = @ - 1, !.req = NextRequest,
                           !.polls = @ \cup {NextRequest}]]
         /\ UNCHANGED <<exists, config, _closed, _client, _open, _openClients, natives,
                        connect, result, closedSince, timeout, resources, openState,
                        serverVars>>
    ELSE /\ create' = [create EXCEPT ![i] =
                [cr EXCEPT !.pc = "rejected", !.times = @ - 1,
                           !.error = ErrorOf("Timeout")]]
         /\ UNCHANGED resources
         /\ CreateOnly

\* createDatabaseAsync(id), up to await this.openAsync()
CreateDatabase(i, id) ==
    /\ create[i].pc = "none"
    /\ Open(i, DefaultOpenRetries, FALSE)
    /\ create' = [create EXCEPT ![i] =
            IF result'.throws # ""
            THEN [@ EXCEPT !.pc = "rejected", !.id = id,
                           !.error = ErrorOf(result'.throws)]
            ELSE [@ EXCEPT !.pc = "opening", !.id = id]]
    /\ UNCHANGED serverVars

\* the application calls client.createDatabaseAsync(id)
CreateDatabaseAsync(i, id) ==
    /\ CreateDatabase(i, id)
    /\ UNCHANGED upperVars

\* the promise of openAsync is settled: the curried tryCreateDB is called
CreateAfterOpen(i) ==
    LET cr == create[i] IN
    /\ UNCHANGED upperVars
    /\ cr.pc = "opening"
    /\ microtasks = <<>>
    /\ openState[_open[i]] \in {"resolved", "rejected"}
    /\ IF openState[_open[i]] = "resolved"
       THEN /\ \E c \in Requests : ~issued[c]
            /\ Issue(NextRequest, 0, 0, FALSE, TRUE, FALSE)
            /\ create' = [create EXCEPT ![i] =
                   [cr EXCEPT !.pc = "creating", !.req = NextRequest]]
            /\ UNCHANGED <<clientVars, serverVars>>
       ELSE /\ create' = [create EXCEPT ![i] =
                   [cr EXCEPT !.pc = "rejected",
                              !.error = returned[connect[_open[i]]].val]]
            /\ UNCHANGED resources
            /\ CreateOnly

\* the promise of the curried tryCreateDB is settled: the polling starts
CreateAfterCreate(i) ==
    LET cr == create[i] IN
    /\ UNCHANGED upperVars
    /\ cr.pc = "creating"
    /\ microtasks = <<>>
    /\ returned[cr.req] # PendingPromise
    /\ IF returned[cr.req].state = "resolved"
       THEN LET t == Polls(timeout[i]) IN
               IF t > 0
               THEN /\ \E c \in Requests : ~issued[c]
                    /\ ForceReload(i, NextRequest)
                    /\ create' = [create EXCEPT ![i] =
                           [cr EXCEPT !.pc = "reading", !.times = t - 1,
                                      !.req = NextRequest, !.polls = {NextRequest}]]
                    /\ UNCHANGED <<exists, config, _closed, _client, _open,
                                   _openClients, natives, connect, result, closedSince,
                                   timeout, resources, openState, serverVars>>
               ELSE /\ create' = [create EXCEPT ![i] =
                           [cr EXCEPT !.pc = "rejected", !.times = t - 1,
                                      !.error = ErrorOf("Timeout")]]
                    /\ UNCHANGED resources
                    /\ CreateOnly
       ELSE /\ create' = [create EXCEPT ![i] =
                   [cr EXCEPT !.pc = "rejected", !.error = returned[cr.req].val]]
            /\ UNCHANGED resources
            /\ CreateOnly

\* the promise of the curried tryReadDBs is settled: the list resolves the
\* promise made for it, and listDatabasesAsync awaits this._databaseResources
CreateAfterRead(i) ==
    LET cr == create[i] IN
    /\ UNCHANGED upperVars
    /\ cr.pc = "reading"
    /\ microtasks = <<>>
    /\ returned[cr.req] # PendingPromise
    /\ IF returned[cr.req].state = "resolved"
       THEN /\ resources' = ResolveList(resources, ReloadResources(cr.req),
                                        payload[cr.req])
            /\ create' = [create EXCEPT ![i] =
                   [cr EXCEPT !.pc = "listing", !.awaits = _databaseResources[i]]]
       ELSE /\ create' = [create EXCEPT ![i] =
                   [cr EXCEPT !.pc = "rejected", !.error = returned[cr.req].val]]
            /\ UNCHANGED resources
    /\ CreateOnly

\* the awaited list is there: if (dbs.some(db => db.id === id)) return;
\* await sleepAsync(100)
CreateAfterList(i) ==
    LET cr == create[i] IN
    /\ UNCHANGED upperVars
    /\ cr.pc = "listing"
    /\ microtasks = <<>>
    /\ resources[cr.awaits] # PendingList
    /\ create' = [create EXCEPT ![i] =
            [cr EXCEPT !.pc = IF cr.id \in resources[cr.awaits].val
                              THEN "resolved" ELSE "sleeping"]]
    /\ UNCHANGED resources
    /\ CreateOnly

\* the timer of sleepAsync fires: the loop goes round
SleepFires(i) ==
    /\ create[i].pc = "sleeping"
    /\ microtasks = <<>>
    /\ Poll(i)
    /\ UNCHANGED upperVars

\* the request of call c is answered by the account: the create request
\* of a createDatabaseAsync makes the database, or fails with 409 where it
\* exists; the delete request of a deleteAsync removes the database; a
\* read reports a list, which may lack what was made last
Respond(c, a, out, l) ==
    LET creates == {i \in Clients : create[i].pc = "creating" /\ create[i].req = c} IN
    /\ Completes(c, a, out)
    /\ IF creates # {}
       THEN /\ l = {}
            /\ \A i \in creates :
                  /\ out.err /\ out.code = 409 => create[i].id \in server
                  /\ ~out.err => create[i].id \notin server
            /\ server' = IF out.err THEN server
                         ELSE server \cup {create[i].id : i \in creates}
            /\ UNCHANGED payload
       ELSE IF db.req = c
       THEN /\ l = {}
            /\ ~(out.err /\ out.code = 409)
            /\ ~out.err => db.id \in server
            /\ server' = IF out.err THEN server ELSE server \ {db.id}
            /\ UNCHANGED payload
       ELSE /\ l \subseteq server
            /\ ~(out.err /\ out.code = 409)
            /\ payload' = [payload EXCEPT ![c] =
                   IF ~out.err /\ promise[c] = PendingPromise THEN l ELSE @]
            /\ UNCHANGED server
    /\ UNCHANGED <<clientVars, createVars, upperVars>>

\* ------------------------------------------------------------- Database
\* r._self of the database resource with an id
SelfLink(id) == <<"dbs", id>>

\* err.code <= 404: false where the error has no code
CodeAtMost404(v) == v.kind \in {"error", "Error"} /\ v.n # 0 /\ v.n <= 404

\* the frame of a step of openOrCreateAsync that calls nothing
DatabaseOnly == UNCHANGED <<adapterVars, clientVars, createVars, serverVars, streamVars>>

\* new Database(id, client); db.openOrCreateAsync(maxRetries), up to
\* await this.client.openAsync(maxRetries)
OpenOrCreateAsync(i, id, m) ==
    /\ db.pc = "none"
    /\ Open(i, m, FALSE)
    /\ db' = [db EXCEPT !.id = id, !.client = i, !.maxRetries = m,
                        !.pc = IF result'.throws # "" THEN "rejected" ELSE "opening",
                        !.error = IF result'.throws # "" THEN ErrorOf(result'.throws)
                                  ELSE NoValue]
    /\ UNCHANGED <<createVars, serverVars, streamVars>>

\* the promise of openAsync is settled: listDatabasesAsync(forceReload),
\* with forceReload false, awaits this._databaseResources
DatabaseAfterOpen ==
    LET i == db.client IN
    /\ db.pc = "opening"
    /\ microtasks = <<>>
    /\ openState[_open[i]] \in {"resolved", "rejected"}
    /\ db' = IF openState[_open[i]] = "resolved"
             THEN [db EXCEPT !.pc = "listing", !.awaits = _databaseResources[i]]
             ELSE [db EXCEPT !.pc = "rejected",
                             !.error = returned[connect[_open[i]]].val]
    /\ DatabaseOnly

\* the list is there: dbs.some(...) sets _self where the id is listed;
\* if not, createDatabaseAsync(this.id) is called
DatabaseAfterList ==
    LET i == db.client IN
    /\ db.pc = "listing"
    /\ microtasks = <<>>
    /\ resources[db.awaits] # PendingList
    /\ IF db.id \in resources[db.awaits].val
       THEN /\ db' = [db EXCEPT !.pc = "resolved", !.self = SelfLink(db.id)]
            /\ DatabaseOnly
       ELSE /\ CreateDatabase(i, db.id)
            /\ db' = [db EXCEPT !.pc = "creating"]
            /\ UNCHANGED streamVars

\* createDatabaseAsync is settled: return this, or the catch clause
DatabaseAfterCreate ==
    LET cr == create[db.client] IN
    /\ db.pc = "creating"
    /\ microtasks = <<>>
    /\ cr.pc \in {"resolved", "rejected"}
    /\ db' = IF cr.pc = "resolved" THEN [db EXCEPT !.pc = "resolved"]
             ELSE IF CodeAtMost404(cr.error) \/ db.maxRetries <= 0
             THEN [db EXCEPT !.pc = "rejected", !.error = cr.error,
                             !.maxRetries = IF CodeAtMost404(cr.error) THEN @ ELSE @ - 1]
             ELSE [db EXCEPT !.pc = "sleeping", !.maxRetries = @ - 1]
    /\ DatabaseOnly

\* the timer of sleepAsync(100) fires: forceReload = true, and the
\* statement after the if is return this
DatabaseSleepFires ==
    /\ db.pc = "sleeping"
    /\ microtasks = <<>>
    /\ db' = [db EXCEPT !.pc = "resolved", !.forceReload = TRUE]
    /\ DatabaseOnly

\* new Error("Database does not exist: " + this.id)
DoesNotExist(id) == ErrorOf("Database does not exist: " \o id)

\* no call is in progress on the Database object
DatabaseIdle ==
    \/ db.pc \in {"none", "resolved", "rejected", "deleted"}
    \/ db.pc = "opened" /\ db.op = "open"

\* db.openAsync(maxRetries), or the openAsync that deleteAsync calls first,
\* up to await this.client.openAsync(maxRetries); on a Database object
\* made for the call where there is none
DatabaseOpen(i, id, m, op) ==
    /\ DatabaseIdle
    /\ db.pc # "none" => id = db.id /\ i = db.client
    /\ IF db.self # NoSelf
       THEN /\ db' = [db EXCEPT !.id = id, !.client = i, !.op = op, !.pc = "opened",
                                !.error = NoValue]
            /\ DatabaseOnly
       ELSE /\ Open(i, m, FALSE)
            /\ db' = [db EXCEPT !.id = id, !.client = i, !.op = op,
                                !.pc = IF result'.throws # "" THEN "rejected"
                                       ELSE "validating",
                                !.error = IF result'.throws # ""
                                          THEN ErrorOf(result'.throws) ELSE NoValue]
            /\ UNCHANGED <<createVars, serverVars, streamVars>>

\* the application calls db.openAsync(maxRetries)
DatabaseOpenAsync(i, id, m) == DatabaseOpen(i, id, m, "open")

\* the application calls db.deleteAsync(maxRetries)
DatabaseDeleteAsync(i, id, m) == DatabaseOpen(i, id, m, "delete")

\* the promise of client.openAsync is settled: listDatabasesAsync(false,
\* maxRetries) finds _open set and awaits this._databaseResources
DatabaseOpenAfterOpen ==
    LET i == db.client IN
    /\ db.pc = "validating"
    /\ microtasks = <<>>
    /\ openState[_open[i]] \in {"resolved", "rejected"}
    /\ db' = IF openState[_open[i]] = "resolved"
             THEN [db EXCEPT !.pc = "finding", !.awaits = _databaseResources[i]]
             ELSE [db EXCEPT !.pc = "rejected",
                             !.error = returned[connect[_open[i]]].val]
    /\ DatabaseOnly

\* the list is there: dbs.some(...) sets _self where the id is listed;
\* if (!this._self) throw new Error("Database does not exist: " + this.id)
DatabaseOpenAfterList ==
    /\ db.pc = "finding"
    /\ microtasks = <<>>
    /\ resources[db.awaits] # PendingList
    /\ db' = IF db.id \in resources[db.awaits].val
             THEN [db EXCEPT !.pc = "opened", !.self = SelfLink(db.id)]
             ELSE [db EXCEPT !.pc = "rejected", !.error = DoesNotExist(db.id)]
    /\ DatabaseOnly

\* deleteAsync after its openAsync has resolved: the curried tryDelete is
\* called, curryPromise(tryDelete, this.client.timeout)()
DatabaseDelete ==
    /\ db.pc = "opened" /\ db.op = "delete"
    /\ microtasks = <<>>
    /\ \E c \in Requests : ~issued[c]
    /\ Issue(NextRequest, 0, 0, FALSE, TRUE, FALSE)
    /\ db' = [db EXCEPT !.pc = "deleting", !.req = NextRequest]
    /\ UNCHANGED <<clientVars, createVars, serverVars, streamVars>>

\* the promise of the curried tryDelete is settled: delete this._self
DatabaseAfterDelete ==
    /\ db.pc = "deleting"
    /\ microtasks = <<>>
    /\ returned[db.req] # PendingPromise
    /\ db' = IF returned[db.req].state = "resolved"
             THEN [db EXCEPT !.pc = "deleted", !.self = NoSelf]
             ELSE [db EXCEPT !.pc = "rejected", !.error = returned[db.req].val]
    /\ DatabaseOnly

\* ------------------------------------------------------------- Collection
\* an argument left out of a call
NotGiven == -1
\* curryPromise(f, timeout = 60000, maxRetries = 0, ...): the default
\* stands in where the argument is undefined
DefaultMaxRetries == 0
MaxRetriesOr(arg, default) == IF arg = NotGiven THEN default ELSE arg
\* the retryTimer deleteDocumentAsync passes
DeleteRetryTimer == 500

\* collection.findDocumentAsync(obj, maxRetries) for an object with a
\* well-formed document URI: curryPromise(tryReadDoc, timeout, maxRetries,
\* undefined, true)()
FindDocumentAsync(c, m) ==
    /\ Issue(c, MaxRetriesOr(m, DefaultMaxRetries), 0, TRUE, TRUE, FALSE)
    /\ UNCHANGED layerVars

\* collection.deleteDocumentAsync(v, maxRetries) for a document with a
\* _self link: curryPromise(tryDelete, timeout, maxRetries, 500, true)()
DeleteDocumentAsync(c, m) ==
    /\ Issue(c, MaxRetriesOr(m, DefaultMaxRetries), DeleteRetryTimer, TRUE, TRUE, FALSE)
    /\ UNCHANGED layerVars

\* ------------------------------------------------------------- DocumentStream
\* the retryTimer next() passes: curryPromise(qi.nextItem.bind(qi), this.timeout, 0, 100)
ReadRetryTimer == 100

\* mutant: a handler for fulfilment is queued also where p is rejected
ReactAlsoOnRejection(rd, js, p, job) ==
    IF rd[p].state = "pending"
    THEN [rd |-> [rd EXCEPT ![p].reactions = Append(@, job)], js |-> js]
    ELSE [rd |-> rd, js |-> Append(js, job)]

\* p.then(handler) or await p: the reaction is ready at once where p is
\* settled, and waits on p otherwise; a handler for fulfilment (the reset
\* of resetAsync) is dropped where p is rejected
React(rd, js, p, job) ==
    IF rd[p].state = "pending"
    THEN [rd |-> [rd EXCEPT ![p].reactions = Append(@, job)], js |-> js]
    ELSE IF rd[p].state = "rejected" /\ job.t = "reset"
    THEN [rd |-> rd, js |-> js]
    ELSE [rd |-> rd, js |-> Append(js, job)]

\* the reactions of a promise that is settled become ready, in the order
\* in which they were registered
Ready(rs, st) ==
    SelectSeq(rs, LAMBDA j : ~(st = "rejected" /\ j.t = "reset"))

\* await (this._nextP = this._nextP.then(() => ... readNextAsync())): promise
\* k is made with the handler registered on the promise before it, and
\* the call awaits it
Chain(rd, js, k) ==
    LET made == [rd EXCEPT ![k] = [NoRead EXCEPT !.pc = "chained",
                                                 !.pred = stream._nextP,
                                                 !.reactions = <<Job("settle", k)>>,
                                                 !.array = rd[k].array]]
    IN React(made, js, stream._nextP, Job("react", k))

\* the body of next() and of toArray(): with this._qi set the promise is
\* chained at once, otherwise the call awaits this._qiP first
StreamCall(k, js, array) ==
    IF stream._qi
    THEN LET r == Chain([reads EXCEPT ![k].array = array], js, k) IN
         /\ reads' = r.rd
         /\ jobs' = r.js
         /\ stream' = [stream EXCEPT !._nextP = k, !.made = k]
    ELSE /\ reads' = [reads EXCEPT ![k] = [NoRead EXCEPT !.pc = "awaitQi",
                                                         !.array = array]]
         /\ IF stream.qiP
            THEN /\ jobs' = Append(js, Job("resume", k))
                 /\ stream' = [stream EXCEPT !.made = k]
            ELSE /\ jobs' = js
                 /\ stream' = [stream EXCEPT !.made = k, !.waiting = Append(@, k)]

\* the body of next()
NextCall(k, js) == StreamCall(k, js, FALSE)

\* the application calls stream.next() or stream.read()
StreamNext ==
    /\ stream.made + 1 \in Reads
    /\ each.pc = "none"
    /\ NextCall(stream.made + 1, jobs)
    /\ UNCHANGED <<adapterVars, clientVars, createVars, serverVars, db, each>>

\* the application calls stream.toArray()
ToArray ==
    /\ stream.made + 1 \in Reads
    /\ each.pc = "none"
    /\ StreamCall(stream.made + 1, jobs, TRUE)
    /\ UNCHANGED <<adapterVars, clientVars, createVars, serverVars, db, each>>

\* the application calls stream.resetAsync(): this._nextP.then(() => {
\* this._qi && this._qi.reset() })
ResetAsync ==
    /\ stream.resets < NCalls - 1
    /\ LET r == React(reads, jobs, stream._nextP, Job("reset", stream.made)) IN
         /\ reads' = r.rd
         /\ jobs' = r.js
    /\ stream' = [stream EXCEPT !.resets = @ + 1]
    /\ UNCHANGED <<adapterVars, clientVars, createVars, serverVars, db, each>>

\* the promise this._qiP is resolved with the query iterator
QueryReady ==
    /\ ~stream.qiP
    /\ jobs = <<>> /\ microtasks = <<>>
    /\ stream' = [stream EXCEPT !.qiP = TRUE, !.waiting = <<>>]
    /\ jobs' = [i \in 1 .. Len(stream.waiting) |-> Job("resume", stream.waiting[i])]
    /\ UNCHANGED <<adapterVars, clientVars, createVars, serverVars, db, each, reads>>

\* promise k is settled, and what waits on it becomes ready
SettleRead(rd, js, k, st, item, err) ==
    [rd |-> [rd EXCEPT ![k].state = st, ![k].item = item, ![k].error = err,
                       ![k].reactions = <<>>],
     js |-> js \o Ready(rd[k].reactions, st)]

\* mutant: forEach goes on unless f throws
ContinuesAfterFalse(fret) == fret \in {"go", "false"}

\* if (f(n.value) === false) return false; return next()
Continues(fret) == fret = "go"

\* forEach: this.next().then(n => ...)
EachNext(k, js) ==
    /\ NextCall(k, js)
    /\ each' = [each EXCEPT !.pc = "waiting", !.k = k]

\* the application calls stream.forEach(f)
ForEach ==
    /\ each.pc = "none"
    /\ stream.made = 0
    /\ EachNext(1, jobs)
    /\ UNCHANGED <<adapterVars, clientVars, createVars, serverVars, db>>

\* the job at the head of the queue runs; fret is what f does with the
\* value it is called with
RunJob(fret) ==
    /\ jobs # <<>>
    /\ microtasks = <<>>
    /\ LET job == Head(jobs)
           k == job.k
       IN CASE job.t = "resume" ->
                \* this._qi = await this._qiP, and the rest of next()
                /\ fret = "go"
                /\ LET r == Chain(reads, Tail(jobs), k) IN
                     /\ reads' = r.rd
                     /\ jobs' = r.js
                /\ stream' = [stream EXCEPT !._qi = TRUE, !._nextP = k]
                /\ UNCHANGED <<adapterVars, each>>
            [] job.t = "react" ->
                \* the handler of then: readNextAsync(), or readArrayAsync()
                \* which is curried without a retryTimer; a rejection passes it by
                /\ fret = "go"
                /\ IF reads[reads[k].pred].state = "resolved"
                   THEN /\ \E c \in Requests : ~issued[c]
                        /\ Issue(NextRequest, 0,
                                 IF reads[k].array THEN 0 ELSE ReadRetryTimer,
                                 FALSE, TRUE, FALSE)
                        /\ reads' = [reads EXCEPT ![k].pc = "issued",
                                                  ![k].req = NextRequest]
                        /\ jobs' = Tail(jobs)
                   ELSE /\ LET r == SettleRead(reads, Tail(jobs), k, "rejected", EndOfSet,
                                               reads[reads[k].pred].error) IN
                             /\ reads' = [r.rd EXCEPT ![k].pc = "passed"]
                             /\ jobs' = r.js
                        /\ UNCHANGED adapterVars
                /\ UNCHANGED <<stream, each>>
            [] job.t = "settle" ->
                \* next() returns { value, done } or throws what it awaited
                /\ fret = "go"
                /\ reads' = [reads EXCEPT ![k].result =
                        [state |-> reads[k].state, item |-> reads[k].item,
                         error |-> reads[k].error]]
                /\ jobs' = IF each.pc = "waiting" /\ each.k = k
                           THEN Append(Tail(jobs), Job("each", k)) ELSE Tail(jobs)
                /\ UNCHANGED <<adapterVars, stream, each>>
            [] job.t = "reset" ->
                \* this._qi && this._qi.reset()
                /\ fret = "go"
                /\ stream' = [stream EXCEPT !.pos = IF stream._qi THEN 0 ELSE @]
                /\ jobs' = Tail(jobs)
                /\ UNCHANGED <<adapterVars, reads, each>>
            [] job.t = "each" ->
                \* n => { if (n.done) return true;
                \*        if (f(n.value) === false) return false; return next() }
                LET n == reads[k].result IN
                IF n.state = "rejected"
                THEN /\ fret = "go"
                     /\ each' = [each EXCEPT !.pc = "rejected", !.error = n.error]
                     /\ jobs' = Tail(jobs)
                     /\ UNCHANGED <<adapterVars, stream, reads>>
                ELSE IF n.item = EndOfSet
                THEN /\ fret = "go"
                     /\ each' = [each EXCEPT !.pc = "resolved", !.value = TRUE]
                     /\ jobs' = Tail(jobs)
                     /\ UNCHANGED <<adapterVars, stream, reads>>
                ELSE IF Continues(fret)
                THEN /\ k + 1 \in Reads
                     /\ NextCall(k + 1, Tail(jobs))
                     /\ each' = [each EXCEPT !.k = k + 1, !.seen = Append(@, n.item),
                                             !.rets = Append(@, fret)]
                     /\ UNCHANGED adapterVars
                ELSE /\ each' = [each EXCEPT
                            !.pc = IF fret = "false" THEN "resolved" ELSE "rejected",
                            !.value = FALSE,
                            !.error = IF fret = "throw" THEN ThrownValue(k) ELSE @,
                            !.seen = Append(@, n.item), !.rets = Append(@, fret)]
                     /\ jobs' = Tail(jobs)
                     /\ UNCHANGED <<adapterVars, stream, reads>>
    /\ UNCHANGED <<clientVars, createVars, serverVars, db>>

\* the promise readNextAsync() returned is settled, and promise k with it
ReadSettles(k) ==
    /\ reads[k].pc = "issued"
    /\ reads[k].state = "pending"
    /\ microtasks = <<>>
    /\ returned[reads[k].req] # PendingPromise
    /\ LET r == IF returned[reads[k].req].state = "resolved"
                THEN SettleRead(reads, jobs, k, "resolved", reads[k].got, NoValue)
                ELSE SettleRead(reads, jobs, k, "rejected", EndOfSet,
                                returned[reads[k].req].val)
       IN /\ reads' = r.rd
          /\ jobs' = r.js
    /\ UNCHANGED <<adapterVars, clientVars, createVars, serverVars, db, stream, each>>

\* nextItem of the query iterator calls back: with the item at its
\* position, or undefined at the end of the set, or with an error; toArray
\* of the query iterator calls back with the items from its position on
Delivers(k, out) ==
    LET c == reads[k].req
        item == IF stream.pos < stream.size THEN stream.pos + 1 ELSE EndOfSet
        rest == [n \in 1 .. stream.size - stream.pos |-> stream.pos + n]
    IN
    /\ reads[k].pc = "issued"
    /\ jobs = <<>>
    /\ Completes(c, 1, out)
    /\ IF out.err
       THEN UNCHANGED <<stream, reads>>
       ELSE IF reads[k].array
       THEN /\ stream' = [stream EXCEPT !.pos = stream.size,
                                        !.delivered = @ \o rest]
            /\ reads' = [reads EXCEPT ![k].all =
                    IF promise[c] = PendingPromise THEN rest ELSE @]
       ELSE /\ stream' = [stream EXCEPT
                    !.pos = IF item = EndOfSet THEN @ ELSE item,
                    !.delivered = Append(@, item)]
            /\ reads' = [reads EXCEPT ![k].got =
                    IF promise[c] = PendingPromise THEN item ELSE @]
    /\ UNCHANGED <<clientVars, createVars, serverVars, db, jobs, each>>

\* the timer of a read fires
ReadTimeout(k) ==
    /\ reads[k].pc = "issued"
    /\ jobs = <<>>
    /\ TimeoutFires(reads[k].req, 1)

\* ------------------------------------------------------------- specifications
InitAdapter ==
    /\ _pending = 0
    /\ issued = [c \in Requests |-> FALSE]
    /\ maxRetries = [c \in Requests |-> 0]
    /\ retryOn404 = [c \in Requests |-> FALSE]
    /\ retryTimer = [c \in Requests |-> 0]
    /\ fixedPos = [c \in Requests |-> TRUE]
    /\ started = [c \in Requests |-> FALSE]
    /\ done = [c \in Requests |-> FALSE]
    /\ retries = [c \in Requests |-> 0]
    /\ timeoutTimer = [c \in Requests |-> 0]
    /\ args = [c \in Requests |-> <<>>]
    /\ retried = [c \in Requests |-> {}]
    /\ timers = [c \in Requests |-> {}]
    /\ execTimers = [c \in Requests |-> {}]
    /\ execDelay = [c \in Requests |-> {}]
    /\ running = [c \in Requests |-> {}]
    /\ promise = [c \in Requests |-> PendingPromise]
    /\ returned = [c \in Requests |-> PendingPromise]
    /\ microtasks = <<>>
    /\ log = [c \in Requests |-> <<>>]

InitCalls ==
    /\ InitAdapter
    /\ InitClients

\* a burst of calls against a fixed ceiling; the operations take their
\* callback at a fixed position, as the callers in this repository do
Init ==
    /\ concurrencyLimit \in 1 .. MaxLimit
    /\ InitCalls

Next ==
    \/ \E c \in Calls, m \in BurstBudgets, throws \in BOOLEAN :
          Call(c, m, 0, FALSE, TRUE, throws)
    \/ \E c \in Calls, s \in {0} \cup BurstAttempts, throws \in BOOLEAN :
          ExecFires(c, s, throws)
    \/ \E c \in Calls, a \in BurstAttempts : TimeoutFires(c, a)
    \/ \E c \in Calls, a \in BurstAttempts, out \in Outcomes(BurstCodes) :
          OpCompletes(c, a, out)
    \/ ThenHandler

Spec == Init /\ [][Next]_vars

\* a burst of calls while the application changes the ceiling; the
\* operations report success or 503 or run into their timeout
CeilingValues == 0 .. MaxLimit + 1

InitCeiling ==
    /\ concurrencyLimit \in CeilingValues
    /\ InitCalls

NextCeiling ==
    \/ \E c \in Calls : Call(c, 0, 0, FALSE, TRUE, FALSE)
    \/ \E c \in Calls : ExecFires(c, 0, FALSE)
    \/ \E c \in Calls : TimeoutFires(c, 1)
    \/ \E c \in Calls, out \in Outcomes(BurstCodes) : OpCompletes(c, 1, out)
    \/ ThenHandler
    \/ \E l \in CeilingValues : SetConcurrencyLimit(l)

SpecCeiling == InitCeiling /\ [][NextCeiling]_vars

\* a burst and a call issued after it, against a fixed ceiling; the
\* operations report success or 503, throw, or never report
NextQueue ==
    \/ \E c \in Requests, m \in QueueBudgets, throws \in BOOLEAN :
          Call(c, m, 0, FALSE, TRUE, throws)
    \/ \E c \in Requests, s \in {0} \cup QueueAttempts, throws \in BOOLEAN :
          ExecFires(c, s, throws)
    \/ \E c \in Requests, a \in QueueAttempts : TimeoutFires(c, a)
    \/ \E c \in Requests, a \in QueueAttempts, out \in Outcomes(BurstCodes) :
          OpCompletes(c, a, out)
    \/ ThenHandler

SpecQueue == Init /\ [][NextQueue]_vars

\* the event loop runs every timer that is due and every queued promise
\* reaction; nothing obliges an operation to call its callback
FairQueue ==
    /\ SpecQueue
    /\ \A c \in Requests :
          /\ \A s \in {0} \cup QueueAttempts :
                WF_vars(\E throws \in BOOLEAN : ExecFires(c, s, throws))
          /\ \A a \in QueueAttempts : WF_vars(TimeoutFires(c, a))
    /\ WF_vars(ThenHandler)

\* Client instances opened and closed, their connect requests answered
\* with success or 503 or not yet; the promises openAsync returned are
\* left unobserved
ConnectBudgets == {0}
NextClient ==
    \/ \E i \in Clients, cfg \in Configs : NewClient(i, cfg)
    \/ \E i \in Clients, m \in ConnectBudgets : OpenAsync(i, m, FALSE)
    \/ \E i \in Clients : Close(i)
    \/ \E c \in Requests : ExecFires(c, 0, FALSE)
    \/ \E c \in Requests, out \in Outcomes(BurstCodes) : OpCompletes(c, 1, out)
    \/ ThenHandler

SpecClient == Init /\ [][NextClient]_vars

\* one instance with a short timeout, on which createDatabaseAsync is
\* called once; the account answers every request with success, 409 or 503
\* or not before the timer
Timeouts == {50, 150}
AccountCodes == {409, 503}
InitCreate ==
    /\ concurrencyLimit \in 1 .. MaxLimit
    /\ InitAdapter
    /\ \E t \in Timeouts, cfg \in Configs : Constructed({1}, cfg, t)

NextCreate ==
    \/ \E id \in Ids : CreateDatabaseAsync(1, id)
    \/ Connected(1)
    \/ CreateAfterOpen(1)
    \/ CreateAfterCreate(1)
    \/ CreateAfterRead(1)
    \/ CreateAfterList(1)
    \/ SleepFires(1)
    \/ \E c \in Requests, s \in 0 .. DefaultOpenRetries : ExecFires(c, s, FALSE)
    \/ \E c \in Requests, a \in 1 .. DefaultOpenRetries + 1 : TimeoutFires(c, a)
    \/ \E c \in Requests, a \in 1 .. DefaultOpenRetries + 1,
          out \in Outcomes(AccountCodes), l \in SUBSET Ids : Respond(c, a, out, l)
    \/ ThenHandler

SpecCreate == InitCreate /\ [][NextCreate]_vars

\* one Database object on one instance, on which openOrCreateAsync is
\* called once; another party may make the database meanwhile
DatabaseBudgets == {0, 1}
OtherPartyCreates(id) ==
    /\ id \notin server
    /\ server' = server \cup {id}
    /\ UNCHANGED <<adapterVars, clientVars, createVars, payload, upperVars>>

NextDatabase ==
    \/ \E id \in Ids, m \in DatabaseBudgets : OpenOrCreateAsync(1, id, m)
    \/ DatabaseAfterOpen
    \/ DatabaseAfterList
    \/ DatabaseAfterCreate
    \/ DatabaseSleepFires
    \/ \E id \in Ids : OtherPartyCreates(id)
    \/ Connected(1)
    \/ CreateAfterOpen(1)
    \/ CreateAfterCreate(1)
    \/ CreateAfterRead(1)
    \/ CreateAfterList(1)
    \/ SleepFires(1)
    \/ \E c \in Requests : TimeoutFires(c, 1)
    \/ \E c \in Requests, out \in Outcomes(AccountCodes), l \in SUBSET Ids :
          Respond(c, 1, out, l)
    \/ ThenHandler

SpecDatabase == InitCreate /\ [][NextDatabase]_vars

\* one instance that the application opens, and one Database object on it
\* on which it calls openAsync and deleteAsync; it may call
\* createDatabaseAsync on the opened instance, and another party may make
\* the database
NextList ==
    \/ \E m \in ConnectBudgets : OpenAsync(1, m, FALSE)
    \/ \E id \in Ids : _open[1] # 0 /\ CreateDatabaseAsync(1, id)
    \/ \E id \in Ids, m \in ConnectBudgets : DatabaseOpenAsync(1, id, m)
    \/ \E id \in Ids, m \in ConnectBudgets : DatabaseDeleteAsync(1, id, m)
    \/ DatabaseOpenAfterOpen
    \/ DatabaseOpenAfterList
    \/ DatabaseDelete
    \/ DatabaseAfterDelete
    \/ \E id \in Ids : OtherPartyCreates(id)
    \/ Connected(1)
    \/ CreateAfterOpen(1)
    \/ CreateAfterCreate(1)
    \/ CreateAfterRead(1)
    \/ CreateAfterList(1)
    \/ SleepFires(1)
    \/ \E c \in Requests : ExecFires(c, 0, FALSE)
    \/ \E c \in Requests : TimeoutFires(c, 1)
    \/ \E c \in Requests, out \in Outcomes(AccountCodes), l \in SUBSET Ids :
          Respond(c, 1, out, l)
    \/ ThenHandler

SpecList == InitCreate /\ [][NextList]_vars

\* the event loop runs every timer that is due and every reaction and
\* continuation that is ready, so every request settles; nothing obliges
\* the application to call, or the account to answer
FairList ==
    /\ SpecList
    /\ WF_vars(DatabaseOpenAfterOpen) /\ WF_vars(DatabaseOpenAfterList)
    /\ WF_vars(DatabaseDelete) /\ WF_vars(DatabaseAfterDelete)
    /\ WF_vars(Connected(1))
    /\ WF_vars(CreateAfterOpen(1)) /\ WF_vars(CreateAfterCreate(1))
    /\ WF_vars(CreateAfterRead(1)) /\ WF_vars(CreateAfterList(1))
    /\ WF_vars(SleepFires(1))
    /\ \A c \in Requests : WF_vars(ExecFires(c, 0, FALSE)) /\ WF_vars(TimeoutFires(c, 1))
    /\ WF_vars(ThenHandler)

\* a call has run its course: its promise has been handed on, no timer of
\* it is armed and no invocation of it can call back
Quiet(c) ==
    /\ issued[c]
    /\ returned[c] # PendingPromise
    /\ timers[c] = {} /\ execTimers[c] = {} /\ running[c] = {}

\* the closure of a call that has run its course is garbage, and the slot
\* stands for the closure of the next call of the curried function
Forget(c) ==
    /\ Quiet(c)
    /\ issued' = [issued EXCEPT ![c] = FALSE]
    /\ maxRetries' = [maxRetries EXCEPT ![c] = 0]
    /\ retryOn404' = [retryOn404 EXCEPT ![c] = FALSE]
    /\ retryTimer' = [retryTimer EXCEPT ![c] = 0]
    /\ fixedPos' = [fixedPos EXCEPT ![c] = TRUE]
    /\ started' = [started EXCEPT ![c] = FALSE]
    /\ done' = [done EXCEPT ![c] = FALSE]
    /\ retries' = [retries EXCEPT ![c] = 0]
    /\ timeoutTimer' = [timeoutTimer EXCEPT ![c] = 0]
    /\ args' = [args EXCEPT ![c] = <<>>]
    /\ retried' = [retried EXCEPT ![c] = {}]
    /\ execDelay' = [execDelay EXCEPT ![c] = {}]
    /\ promise' = [promise EXCEPT ![c] = PendingPromise]
    /\ returned' = [returned EXCEPT ![c] = PendingPromise]
    /\ log' = [log EXCEPT ![c] = <<>>]
    /\ UNCHANGED <<_pending, concurrencyLimit, timers, execTimers, running,
                   microtasks, layerVars>>

\* sustained contention: calls keep arriving against the ceiling MaxLimit
\* whenever there is a free place, and the event loop happens to run the
\* curried function for the call Starved, and each admission check of that
\* call, at moments at which the pending counter is at the ceiling; the
\* operations report success or 503 before their timers fire, from the
\* moment on at which Starved waits, and the slots of the calls that have
\* run their course are given up before the next operation reports
Starved == MaxLimit + 1
Others == Requests \ {Starved}
Full == _pending >= concurrencyLimit

InitStarve ==
    /\ concurrencyLimit = MaxLimit
    /\ InitCalls

Arrives ==
    /\ ~Full /\ microtasks = <<>>
    /\ \E c \in Others, m \in BurstBudgets, rt \in RetryTimers :
          Call(c, m, rt, FALSE, TRUE, FALSE)
\* a call arrives that takes the last free place
Fills == Arrives /\ _pending' >= concurrencyLimit
StarvedArrives == Full /\ Call(Starved, 0, 0, FALSE, TRUE, FALSE)
StarvedCheck == Full /\ ExecFires(Starved, 0, FALSE)
CallsBack(c) ==
    /\ issued[Starved]
    /\ \A d \in Others : ~Quiet(d)
    /\ \E a \in BurstAttempts, out \in Outcomes(BurstCodes) : OpCompletes(c, a, out)
\* the retry of a call of Others is due
Retries(c) == \E s \in BurstAttempts : ExecFires(c, s, FALSE)

NextStarve ==
    \/ Arrives
    \/ StarvedArrives
    \/ StarvedCheck
    \/ \E c \in Others : Retries(c)
    \/ \E c \in Others : CallsBack(c)
    \/ ThenHandler
    \/ \E c \in Others : Forget(c)

SpecStarve == InitStarve /\ [][NextStarve]_vars

\* the event loop runs every timer that is due and every queued promise
\* reaction, every operation reports in the end, and calls keep arriving,
\* again and again up to the ceiling
FairStarve ==
    /\ SpecStarve
    /\ WF_vars(Arrives)
    /\ SF_vars(Fills)
    /\ WF_vars(StarvedArrives)
    /\ \A c \in Others :
          /\ SF_vars(Retries(c))
          /\ SF_vars(CallsBack(c))
          /\ WF_vars(Forget(c))
    /\ WF_vars(ThenHandler)

\* one call with every retry budget and every error code
InitRetry ==
    /\ concurrencyLimit = 1
    /\ InitCalls

NextRetry ==
    \/ \E m \in 0 .. MaxRetries, r404 \in BOOLEAN,
          fx \in BOOLEAN, throws \in BOOLEAN : Call(1, m, 0, r404, fx, throws)
    \/ \E s \in 0 .. MaxRetries + 1, throws \in BOOLEAN : ExecFires(1, s, throws)
    \/ \E a \in 1 .. MaxRetries + 1 : TimeoutFires(1, a)
    \/ \E a \in 1 .. MaxRetries + 1, out \in Outcomes(Codes) : OpCompletes(1, a, out)
    \/ ThenHandler

SpecRetry == InitRetry /\ [][NextRetry]_vars

\* one call whose operation reports errors with retry-after headers and
\* bodies, with and without a retryTimer argument
InitReport ==
    /\ concurrencyLimit = 1
    /\ InitCalls

NextReport ==
    \/ \E m \in ReportBudgets, rt \in RetryTimers, fx \in BOOLEAN :
          Call(1, m, rt, FALSE, fx, FALSE)
    \/ \E s \in ReportAttempts : ExecFires(1, s, FALSE)
    \/ \E a \in ReportAttempts : TimeoutFires(1, a)
    \/ \E a \in ReportAttempts, out \in OutcomesWith(ReportCodes, Headers, Bodies) :
          OpCompletes(1, a, out)
    \/ ThenHandler

SpecReport == InitReport /\ [][NextReport]_vars

\* one document read by URI or deleted, with maxRetries given or not; the
\* server answers with success, 404 or 503
DocumentBudgets == {NotGiven, 1, 2}
DocumentAttempts == {1, 2, 3}
DocumentCodes == {404, 503}
NextCollection ==
    \/ \E m \in DocumentBudgets : FindDocumentAsync(1, m)
    \/ \E m \in DocumentBudgets : DeleteDocumentAsync(1, m)
    \/ \E s \in DocumentAttempts : ExecFires(1, s, FALSE)
    \/ \E a \in DocumentAttempts : TimeoutFires(1, a)
    \/ \E a \in DocumentAttempts, out \in Outcomes(DocumentCodes) : OpCompletes(1, a, out)
    \/ ThenHandler

SpecCollection == InitReport /\ [][NextCollection]_vars

\* one stream on which the application calls next(), toArray() and
\* resetAsync(); the iterator answers each nextItem and toArray with
\* items, the end of the set or 503, or not before the timer
StreamCodes == {503}
InitStreams ==
    /\ concurrencyLimit = 1
    /\ InitAdapter
    /\ \E cfg \in Configs, n \in {0} \cup Items :
          /\ exists = [i \in Clients |-> FALSE]
          /\ config = [i \in Clients |-> DefaultConfig]
          /\ timeout = [i \in Clients |-> DefaultTimeout]
          /\ ClientsUnopened
          /\ stream = [NoStream EXCEPT !.size = n]
          /\ reads = [k \in Promises |-> IF k = 0 THEN ResolvedTrue ELSE NoRead]
          /\ jobs = <<>>
          /\ each = NoEach

NextStream ==
    \/ StreamNext
    \/ ToArray
    \/ ResetAsync
    \/ QueryReady
    \/ \E fret \in {"go"} : RunJob(fret)
    \/ \E k \in Reads : ReadSettles(k)
    \/ \E k \in Reads, out \in Outcomes(StreamCodes) : Delivers(k, out)
    \/ \E k \in Reads : ReadTimeout(k)
    \/ ThenHandler

SpecStream == InitStreams /\ [][NextStream]_vars

\* one stream on which the application calls forEach(f); f returns
\* something other than false, returns false, or throws
Callbacks == {"go", "false", "throw"}
NextForEach ==
    \/ ForEach
    \/ QueryReady
    \/ \E fret \in Callbacks : RunJob(fret)
    \/ \E k \in Reads : ReadSettles(k)
    \/ \E k \in Reads, out \in Outcomes(StreamCodes) : Delivers(k, out)
    \/ \E k \in Reads : ReadTimeout(k)
    \/ ThenHandler

SpecForEach == InitStreams /\ [][NextForEach]_vars

\* one call with every retry budget, whose operation reports success or
\* 503 to the callback of its own attempt or to the first one pushed, or
\* never reports; the event loop runs every timer that is due and every
\* queued promise reaction
NextRounds ==
    \/ \E m \in 0 .. MaxRetries, fx \in BOOLEAN : Call(1, m, 0, FALSE, fx, FALSE)
    \/ \E s \in 1 .. MaxRetries : ExecFires(1, s, FALSE)
    \/ \E a \in 1 .. MaxRetries + 1 : TimeoutFires(1, a)
    \/ \E a \in 1 .. MaxRetries + 1, out \in Outcomes(BurstCodes) : OpCompletes(1, a, out)
    \/ ThenHandler

SpecRounds == InitRetry /\ [][NextRounds]_vars

FairRounds ==
    /\ SpecRounds
    /\ \A s \in 1 .. MaxRetries : WF_vars(ExecFires(1, s, FALSE))
    /\ \A a \in 1 .. MaxRetries + 1 : WF_vars(TimeoutFires(1, a))
    /\ WF_vars(ThenHandler)

\* ------------------------------------------------------------- claims
Settled(c) == returned[c].state # "pending"
Admitted == {c \in Calls : started[c]}
InFlight == {c \in Calls : started[c] /\ ~Settled(c)}
Waiting == {c \in Calls : issued[c] /\ ~started[c]}
HasEvent(c, o) == \E i \in DOMAIN log[c] : log[c][i].o = o

\* C1: with the ceiling constant, the pending counter and the number of
\* calls admitted and not yet settled never exceed the ceiling, and more
\* calls than the ceiling have been admitted only if an admitted call has
\* settled.
C1_AtMostCeilingInFlight ==
    /\ _pending <= concurrencyLimit
    /\ Cardinality(InFlight) <= concurrencyLimit
    /\ Cardinality(Admitted) > concurrencyLimit =>
          \E c \in Admitted : Settled(c)

\* a burst larger than the ceiling: more calls than the ceiling have been
\* admitted, the later ones after a settlement, and the ceiling is full
C1_Witness_AdmittedAfterSettle ==
    /\ Cardinality(Admitted) > concurrencyLimit
    /\ Cardinality(InFlight) = concurrencyLimit
    /\ _pending = concurrencyLimit

\* C2: the pending counter is never negative and equals the number of
\* calls admitted whose returned promise has not settled, whatever
\* retries, timer firings, throws and late callbacks happened.
C2_PendingCountsInFlight ==
    /\ _pending >= 0
    /\ _pending = Cardinality(InFlight)

\* a call that timed out, was retried, had every callback come in and
\* settled, while another call is still counted
C2_Witness_SettledAfterRetry ==
    \E c, d \in Calls :
        /\ Settled(c) /\ Len(args[c]) = 2 /\ HasEvent(c, "T")
        /\ running[c] = {} /\ Len(log[c]) >= 3
        /\ d \in InFlight /\ _pending = 1

\* C4: a call waiting for admission is not rejected or resolved, keeps its
\* whole retry budget, has no timeout timer, has not invoked the wrapped
\* operation, and its admission check stays armed.
C4_WaitingCallUntouched ==
    \A c \in Waiting :
        /\ promise[c] = PendingPromise /\ returned[c] = PendingPromise
        /\ ~done[c]
        /\ retries[c] = maxRetries[c]
        /\ timers[c] = {} /\ timeoutTimer[c] = 0
        /\ args[c] = <<>> /\ running[c] = {} /\ log[c] = <<>>
        /\ execTimers[c] = {0}

\* a call with a retry budget waits while another call is retried
C4_Witness_Waiting ==
    \E c \in Waiting, d \in InFlight :
        /\ maxRetries[c] > 0
        /\ Len(args[d]) = 2

\* --- history read by the claims about one call
IsReport(e) == e.o \in {"E", "N", "K"}
\* the callbacks' reports, in order
Reports(c) == SelectSeq(log[c], IsReport)
\* no timer fired before the invocation of its own attempt had reported
InTime(c) ==
    \A i \in DOMAIN log[c] :
        log[c][i].o = "T" =>
            \E j \in 1 .. (i - 1) : IsReport(log[c][j]) /\ log[c][j].a = log[c][i].a
\* invocations 1..k report a retryable error
ErrRun(k) == [i \in 1 .. k |-> [a |-> i, o |-> "E"]]
\* ... and invocation k+1 reports success
ErrThenOk(k) == [i \in 1 .. (k + 1) |-> [a |-> i, o |-> IF i <= k THEN "E" ELSE "K"]]
Err(code) == Report(TRUE, code, NoHeader, NoBody)
Rejected(v) == [state |-> "rejected", val |-> v]
Resolved(v) == [state |-> "resolved", val |-> v]
\* the codes the claims name as never retried
NeverRetried == {400, 401, 403, 409, 412, 413}
ClaimRetryable(c, code) ==
    code \notin NeverRetried /\ (code # 404 \/ retryOn404[c])

\* C3: with maxRetries = 3, a call whose invocations 1 and 2 report a
\* retryable error and whose invocation 3 reports success (no throw, no
\* timer ahead of its attempt's report) is not rejected on the way and is
\* resolved with the result of invocation 3; once it has settled the
\* pending counter is back at its value before the call (0, the call being
\* the only one).
C3_TwoErrorsThenSuccess ==
    \A c \in Calls :
        (issued[c] /\ maxRetries[c] = 3 /\ InTime(c) /\ ~HasEvent(c, "X")) =>
            /\ Reports(c) \in {ErrRun(0), ErrRun(1), ErrRun(2)} =>
                  promise[c] = PendingPromise
            /\ Reports(c) = ErrThenOk(2) =>
                  /\ promise[c] = Resolved(ResultValue(3))
                  /\ Settled(c) =>
                        returned[c] = Resolved(ResultValue(3)) /\ _pending = 0

\* the scenario has run to its end, with an operation that takes its
\* callback at a fixed position
C3_Witness_ResolvedWithThird ==
    \E c \in Calls :
        /\ maxRetries[c] = 3 /\ fixedPos[c]
        /\ InTime(c) /\ ~HasEvent(c, "X")
        /\ Reports(c) = ErrThenOk(2)
        /\ Settled(c)

\* C5: a callback reporting 400, 401, 403, 409, 412 or 413 to an unsettled
\* call rejects it with that error in the same step, schedules no retry,
\* leaves the retry budget alone and leaves no timer armed, whatever
\* maxRetries is; when it is the first thing that happens to the call, the
\* wrapped operation has been invoked exactly once, for good.
C5_NonRetryableRejectsAtOnce ==
    /\ [][\A c \in Calls : \A a \in running[c], code \in NeverRetried :
            (promise[c].state = "pending" /\ OpCompletes(c, a, Err(code))) =>
                /\ promise'[c] = Rejected(ErrorValue(code))
                /\ retries'[c] = retries[c]
                /\ execTimers'[c] = execTimers[c]
                /\ args'[c] = args[c]
                /\ done'[c]
                /\ timers'[c] = {}]_vars
    /\ [](\A c \in Calls :
            (log[c] # <<>> /\ log[c][1] = [a |-> 1, o |-> "N"]) =>
                /\ Len(args[c]) = 1
                /\ retries[c] = maxRetries[c]
                /\ promise[c].state = "rejected"
                /\ promise[c].val.kind = "error")

\* a call with budget 3 rejected with 412 by its first callback
C5_Witness_Rejected412 ==
    \E c \in Calls :
        /\ maxRetries[c] = 3
        /\ log[c] = <<[a |-> 1, o |-> "N"]>>
        /\ returned[c] = Rejected(ErrorValue(412))
        /\ Len(args[c]) = 1

\* C6: a callback reporting 404 to an unsettled call whose retryOn404 is
\* unset rejects it with a 404 error, untouched budget, no retry (so an
\* operation that always reports 404 is invoked once); with retryOn404 set
\* the step is the one a 503 report would take while budget remains, and
\* the rejection a spent budget gives otherwise.
C6_NotFoundRetriedOnlyOnRequest ==
    /\ [][\A c \in Calls : \A a \in running[c] :
            (promise[c].state = "pending" /\ OpCompletes(c, a, Err(404))) =>
                IF ~retryOn404[c]
                THEN /\ promise'[c] = Rejected(ErrorValue(404))
                     /\ retries'[c] = retries[c]
                     /\ execTimers'[c] = execTimers[c]
                ELSE IF retries[c] > 0
                THEN OpCompletes(c, a, Err(503))
                ELSE /\ promise'[c] = Rejected(ErrorValue(404))
                     /\ retries'[c] = retries[c] - 1]_vars
    /\ [](\A c \in Calls :
            (/\ ~retryOn404[c] /\ log[c] # <<>>
             /\ log[c][1] = [a |-> 1, o |-> "N"]
             /\ promise[c].val = ErrorValue(404)) =>
                Len(args[c]) = 1 /\ promise[c].state = "rejected")

\* a call with budget 3 and retryOn404 unset, rejected with 404 at once
C6_Witness_Rejected404 ==
    \E c \in Calls :
        /\ maxRetries[c] = 3 /\ ~retryOn404[c]
        /\ log[c] = <<[a |-> 1, o |-> "N"]>>
        /\ returned[c] = Rejected(ErrorValue(404))
        /\ Len(args[c]) = 1

\* C7: for every k <= maxRetries, a call whose invocations 1..k report a
\* retryable error (no throw, no timer ahead of its attempt's report) is
\* not rejected, and is resolved with the result of invocation k+1 when
\* that one reports success.
C7_ErrorsThenSuccessResolves ==
    \A c \in Calls :
        (issued[c] /\ InTime(c) /\ ~HasEvent(c, "X")) =>
            \A k \in 0 .. maxRetries[c] :
                /\ Reports(c) = ErrRun(k) => promise[c].state # "rejected"
                /\ Reports(c) = ErrThenOk(k) =>
                      promise[c] = Resolved(ResultValue(k + 1))

\* C8: a call is not rejected by a retryable failure while budget
\* remains; the failure that finds the budget at zero rejects it, with the
\* callback's error when it is an error callback and with Timeout when it
\* is the attempt's timer; the call is resolved only by a success report
\* and the operation is never invoked more than maxRetries + 1 times.
C8_RejectsWhenBudgetSpent ==
    /\ [](\A c \in Calls :
            /\ Len(args[c]) <= maxRetries[c] + 1
            /\ promise[c].state = "resolved" => HasEvent(c, "K"))
    /\ [][\A c \in Calls : \A a \in running[c], code \in Codes :
            (/\ promise[c].state = "pending"
             /\ ClaimRetryable(c, code)
             /\ OpCompletes(c, a, Err(code))) =>
                IF retries[c] > 0
                THEN promise'[c] = PendingPromise
                ELSE /\ promise'[c] = Rejected(ErrorValue(code))
                     /\ execTimers'[c] = execTimers[c]]_vars
    /\ [][\A c \in Calls : \A a \in timers[c] :
            (promise[c].state = "pending" /\ TimeoutFires(c, a)) =>
                IF retries[c] > 0
                THEN promise'[c] = PendingPromise
                ELSE /\ promise'[c] = Rejected(TimeoutValue)
                     /\ execTimers'[c] = execTimers[c]]_vars

\* a call with budget 2 rejected with Timeout after its third attempt
C8_Witness_TimeoutAfterBudget ==
    \E c \in Calls :
        /\ maxRetries[c] = 2 /\ Len(args[c]) = 3
        /\ returned[c] = Rejected(TimeoutValue)

\* C9: when the timer of an attempt fires while that attempt's invocation
\* has not reported and the call is unsettled: with budget left, one unit
\* is consumed, a retry is scheduled and the call stays unsettled; with no
\* budget left, the call is rejected with Timeout and nothing is scheduled.
C9_TimeoutIsRetryableFailure ==
    [][\A c \in Calls : \A a \in timers[c] \cap running[c] :
        (promise[c].state = "pending" /\ TimeoutFires(c, a)) =>
            IF retries[c] > 0
            THEN /\ retries'[c] = retries[c] - 1
                 /\ execTimers'[c] = execTimers[c] \cup {a}
                 /\ a \notin execTimers[c]
                 /\ promise'[c] = PendingPromise
                 /\ timers'[c] = {}
            ELSE /\ promise'[c] = Rejected(TimeoutValue)
                 /\ execTimers'[c] = execTimers[c]
                 /\ done'[c]]_vars

\* the second attempt timed out as well and its retry is scheduled
C9_Witness_SecondTimeoutRetried ==
    \E c \in Calls :
        /\ log[c] = <<[a |-> 1, o |-> "T"], [a |-> 2, o |-> "T"]>>
        /\ running[c] = {1, 2}
        /\ execTimers[c] = {2}
        /\ retries[c] = maxRetries[c] - 2

\* C10: a completion of an invocation whose attempt has already scheduled
\* a retry, or of any invocation of a settled call, changes nothing: it
\* does not settle the promise, change the budget, touch a timer, schedule
\* anything or queue the reaction that gives the pending counter back.
C10_LateCompletionIsNoOp ==
    [][\A c \in Calls : \A a \in running[c], out \in Outcomes(Codes) :
        ((a \in retried[c] \/ promise[c].state # "pending") /\ OpCompletes(c, a, out)) =>
            /\ promise' = promise
            /\ retries' = retries
            /\ timers' = timers /\ timeoutTimer' = timeoutTimer
            /\ execTimers' = execTimers
            /\ microtasks' = microtasks]_vars

\* --- retry delays
\* a header value that is a number and nothing else
IsNumber(h) == h # <<>> /\ \A i \in DOMAIN h : DigitOf(h[i]) # NaN
ErrorReports == OutcomesWith(ReportCodes, Headers, Bodies) \ {NoReport}
\* the exec timer a step of call c armed was given delay t
ArmedWith(c, t) ==
    \E k \in execTimers'[c] \ execTimers[c] : [by |-> k, t |-> t] \in execDelay'[c]

\* C11: whenever the report of a retryable error, whatever its code,
\* carrying a retry-after header that is a number schedules a retry, the
\* next run of exec is armed with exactly that number as its delay.
C11_RetryAfterHonoured ==
    [][\A c \in Calls : \A a \in running[c], out \in ErrorReports :
        (/\ execTimers'[c] # execTimers[c]
         /\ ClaimRetryable(c, out.code) /\ IsNumber(out.hdr)
         /\ OpCompletes(c, a, out)) =>
            ArmedWith(c, ParseFloat(out.hdr))]_vars

\* C11 (amended): the retry-after header is honoured for code 429 only.
\* Whenever an error report schedules a retry, the next run of exec is
\* armed with the header's number when the code is 429 and the header is
\* a number, and with the configured delay (retryTimer, 100 when it is
\* omitted or 0) when the code is not 429 or there is no header; a retry
\* scheduled by a timeout timer is armed with the configured delay.
C11_RetryAfterHonouredFor429 ==
    /\ [][\A c \in Calls : \A a \in running[c], out \in ErrorReports :
            (execTimers'[c] # execTimers[c] /\ OpCompletes(c, a, out)) =>
                /\ (out.code = 429 /\ IsNumber(out.hdr)) =>
                      ArmedWith(c, ParseFloat(out.hdr))
                /\ (out.code # 429 \/ out.hdr = NoHeader) =>
                      ArmedWith(c, ConfiguredDelay(retryTimer[c]))]_vars
    /\ [][\A c \in Calls : \A a \in timers[c] :
            (execTimers'[c] # execTimers[c] /\ TimeoutFires(c, a)) =>
                ArmedWith(c, ConfiguredDelay(retryTimer[c]))]_vars

\* with retryTimer = 20, the retry of attempt 1 is armed with the 25 of a
\* 429 report's header and nothing else has happened to the call
C11_Witness_RetryAfter25 ==
    \E c \in Calls :
        /\ retryTimer[c] = 20
        /\ log[c] = <<[a |-> 1, o |-> "E"]>>
        /\ execDelay[c] = {[by |-> 1, t |-> 25]}
        /\ promise[c] = PendingPromise

\* C12: once the promise of a call has been resolved or rejected, its
\* state and value never change, whatever callbacks, timers and throws of
\* the call's attempts follow; the promise handed to the caller takes
\* that outcome, once, and keeps it.
C12_SettlesOnce ==
    /\ [][\A c \in Calls :
            /\ promise[c].state # "pending" => promise'[c] = promise[c]
            /\ returned[c].state # "pending" => returned'[c] = returned[c]]_vars
    /\ [](\A c \in Calls :
            /\ returned[c].state # "pending" => returned[c] = promise[c]
            /\ Cardinality({i \in DOMAIN microtasks : microtasks[i] = c}) <= 1
            /\ (promise[c].state = "pending" \/ returned[c].state # "pending") =>
                  \A i \in DOMAIN microtasks : microtasks[i] # c)

\* a call rejected by a throw of its first attempt, whose timer then
\* fired and whose second invocation has reported success since
C12_Witness_SuccessAfterThrow ==
    \E c \in Calls :
        /\ returned[c] = Rejected(ThrownValue(1))
        /\ HasEvent(c, "K")

\* the last entry of the log of c after a step that added one
Logged(c) == log'[c][Len(log'[c])]

\* C13: whenever an invocation of the wrapped operation throws, on the
\* first attempt or on a retry, the step ends with the call's promise
\* rejected with the value that invocation threw, and the reaction that
\* hands a thrown value to the caller takes the call off the pending
\* counter.
C13_ThrowRejectsWithThrownValue ==
    /\ [][\A c \in Calls :
            (Len(log'[c]) = Len(log[c]) + 1 /\ Logged(c).o = "X") =>
                promise'[c] = Rejected(ThrownValue(Logged(c).a))]_vars
    /\ [][\A c \in Calls :
            (/\ returned[c].state = "pending"
             /\ returned'[c].state = "rejected"
             /\ returned'[c].val.kind = "thrown") =>
                _pending' = _pending - 1]_vars

\* C14: assigning the ceiling changes nothing else: no call is un-admitted
\* or settled by it and the pending counter keeps its value, also when
\* the new ceiling is below it.  Every admission check compares the
\* counter with the ceiling of that moment: a call is admitted only
\* while the counter is below the current ceiling, and a check (at the
\* call or at a re-poll) of a waiting call made while it is below admits
\* the call, whether or not an admitted call has settled since.
C14_CeilingReadAtAdmission ==
    /\ [][concurrencyLimit' # concurrencyLimit =>
            UNCHANGED <<_pending, issued, started, done, retries, timers,
                        execTimers, running, promise, returned, microtasks, log>>]_vars
    /\ [][\A c \in Calls :
            /\ (~started[c] /\ started'[c]) => _pending < concurrencyLimit
            /\ (~issued[c] /\ issued'[c]) =>
                  (started'[c] <=> _pending < concurrencyLimit)
            /\ (c \in Waiting /\ ExecFires(c, 0, FALSE)) =>
                  (started'[c] <=> _pending < concurrencyLimit)]_vars

\* the ceiling was lowered below the pending counter: the admitted calls
\* are still in flight and a later call waits
C14_Witness_LoweredBelowPending ==
    /\ concurrencyLimit < _pending
    /\ Cardinality(InFlight) = _pending
    /\ Waiting # {}

\* calls issued whose admission check has found the ceiling reached so far
Deferred == {c \in Requests : issued[c] /\ ~started[c]}

\* C15: admission follows the counter, not the order of arrival: a
\* deferred call holds no place, it only has its re-poll armed, and a
\* call whose check (at the call or at a re-poll) finds the counter below
\* the ceiling is admitted whether or not earlier calls are waiting.
C15_AdmissionIgnoresArrivalOrder ==
    /\ [](\A a \in Deferred : execTimers[a] = {0} /\ promise[a] = PendingPromise)
    /\ [][\A b \in Requests :
            (/\ _pending < concurrencyLimit
             /\ \/ ~issued[b] /\ issued'[b]
                \/ b \in Deferred /\ \E throws \in BOOLEAN : ExecFires(b, 0, throws)) =>
                started'[b]]_vars

\* call A was issued before call B and deferred; B has been admitted and
\* A is still waiting
C15_Witness_LaterCallAdmittedFirst ==
    \E a, b \in Requests :
        /\ a < b
        /\ a \in Deferred
        /\ started[b]

\* C17: with a constant ceiling of at least 1 and timers and promise
\* reactions run fairly, every call that is issued is eventually
\* admitted and its promise eventually settles, whether or not the
\* operations ever call back.
C17_EveryCallAdmittedAndSettled ==
    \A c \in Requests :
        /\ issued[c] ~> started[c]
        /\ issued[c] ~> Settled(c)

\* more calls than the ceiling were issued and all of them have been
\* admitted and have settled
C17_Witness_BurstDrained ==
    /\ Cardinality(Requests) > concurrencyLimit
    /\ \A c \in Requests : started[c] /\ Settled(c)
    /\ _pending = 0

\* --- rejection values
\* the body is the text of a JSON object
Structured(b) == Len(b) >= 2 /\ b[1] = "{" /\ b[Len(b)] = "}"
\* the object has a member of that name
Has(b, tok) == \E i \in DOMAIN b : b[i] = tok
\* an error report rejects the unsettled call c in this step
RejectedBy(c, a, out) ==
    /\ promise[c].state = "pending"
    /\ promise'[c].state = "rejected"
    /\ OpCompletes(c, a, out)

\* C16: when an error report rejects a call, the rejection value has the
\* report's code; when the error's body is the text of a JSON object the
\* value is an Error made by the adapter whose message and name are the
\* object's message and code; in every other case it is the error object
\* of the report itself.
C16_RejectionCarriesCode ==
    [][\A c \in Calls : \A a \in running[c], out \in ErrorReports :
        RejectedBy(c, a, out) =>
            /\ promise'[c].val.n = out.code
            /\ IF Structured(out.body)
               THEN promise'[c].val =
                        Value("Error", out.code,
                              IF Has(out.body, "message") THEN "msg"
                              ELSE IF Has(out.body, "message:empty") THEN ""
                              ELSE Undefined,
                              IF Has(out.body, "code") THEN "Code" ELSE Undefined,
                              NoBody)
               ELSE promise'[c].val = RawError(out.code, out.body)]_vars

\* C16 (amended): when an error report rejects a call, the rejection
\* value has the report's code in every case.  When the error's body
\* parses as JSON to a truthy value (an object, but also a number) the
\* value is an Error made by the adapter: its name is the parsed value's
\* code (undefined when it has none) and its message the parsed value's
\* message, or "Database error" when that is missing or empty.  When the
\* body is missing, is no JSON or parses to a falsy value (null), the
\* value is the error object of the report itself.
C16_RejectionCarriesCodeAndParsedBody ==
    [][\A c \in Calls : \A a \in running[c], out \in ErrorReports :
        RejectedBy(c, a, out) =>
            /\ promise'[c].val.n = out.code
            /\ (Structured(out.body) \/ out.body = <<"5">>) =>
                  /\ promise'[c].val.kind = "Error"
                  /\ promise'[c].val.message =
                        IF Has(out.body, "message") THEN "msg" ELSE "Database error"
                  /\ promise'[c].val.name =
                        IF Has(out.body, "code") THEN "Code" ELSE Undefined
            /\ out.body \in {NoBody, <<"plain">>, <<"null">>} =>
                  promise'[c].val = RawError(out.code, out.body)]_vars

\* the second attempt of a call with maxRetries = 1 reported 429 with a
\* JSON body that has a code and no message, and the call is rejected
\* with the adapter's Error
C16_Witness_SynthesizedAfterBudget ==
    \E c \in Calls :
        /\ maxRetries[c] = 1 /\ retries[c] = -1
        /\ Reports(c) = ErrRun(2)
        /\ returned[c] = Rejected(Value("Error", 429, "Database error", "Code", NoBody))

\* C18: every attempt, the first and every retry, invokes the wrapped
\* operation with one completion callback after the caller's arguments,
\* its own, so that an operation taking its callback at a fixed position
\* is handed the callback of the attempt that invoked it.
C18_OneCallbackPerInvocation ==
    [][\A c \in Calls :
        args'[c] # args[c] =>
            LET a == Len(args[c]) + 1 IN
            /\ args'[c] = <<a>>
            /\ CallbackAt(args'[c], a, TRUE) = a]_vars

\* C19: every attempt arms a timeout timer of its own and makes it the
\* current one; a call never has two timeout timers armed; and a timeout
\* timer that fires when its attempt has already retried, or when the
\* call's promise has settled, changes nothing: no budget is consumed, no
\* retry is scheduled, nothing is rejected.
C19_StaleTimerHasNoEffect ==
    /\ [](\A c \in Calls : Cardinality(timers[c]) <= 1)
    /\ [][\A c \in Calls :
            args'[c] # args[c] =>
                /\ Len(args'[c]) \in timers'[c]
                /\ timeoutTimer'[c] = Len(args'[c])]_vars
    /\ [][\A c \in Calls : \A a \in timers[c] :
            (/\ a \in retried[c] \/ promise[c].state # "pending"
             /\ TimeoutFires(c, a)) =>
                /\ retries'[c] = retries[c]
                /\ execTimers'[c] = execTimers[c]
                /\ promise'[c] = promise[c]
                /\ done'[c] = done[c]]_vars

\* C20: the retry budget of a call only changes by one unit at a time,
\* and each unit taken from a call that stays unsettled is a retry that
\* has been scheduled; so a call with maxRetries = M all of whose
\* invocations report a retryable error (no throw, no timer ahead of its
\* attempt's report) is rejected only after M + 1 invocations, with the
\* error of a report.
C20_BudgetCountsRetries ==
    /\ [][\A c \in Calls :
            (issued[c] /\ retries'[c] # retries[c]) =>
                /\ retries'[c] = retries[c] - 1
                /\ promise'[c].state = "pending" =>
                      execTimers'[c] # execTimers[c]]_vars
    /\ [](\A c \in Calls :
            (/\ issued[c] /\ InTime(c) /\ ~HasEvent(c, "X")
             /\ \E k \in 1 .. (MaxRetries + 1) : Reports(c) = ErrRun(k)
             /\ promise[c].state = "rejected") =>
                /\ Len(args[c]) = maxRetries[c] + 1
                /\ promise[c].val.kind = "error")

\* --- locality
\* everything the closure of call d holds, and its promises
ClosureOf(d) ==
    <<issued[d], maxRetries[d], retryOn404[d], retryTimer[d], started[d], done[d],
      retries[d], timeoutTimer[d], args[d], retried[d], timers[d], execTimers[d],
      execDelay[d], running[d], promise[d], returned[d], log[d]>>
ClosureOfNext(d) ==
    <<issued'[d], maxRetries'[d], retryOn404'[d], retryTimer'[d], started'[d], done'[d],
      retries'[d], timeoutTimer'[d], args'[d], retried'[d], timers'[d], execTimers'[d],
      execDelay'[d], running'[d], promise'[d], returned'[d], log'[d]>>

\* C21: every step of the adapter belongs to one call and changes the
\* closure state and the promises of that call alone (budget, timers,
\* settled flag, outcome of every other call stay as they are); the
\* pending counter goes up by one exactly when the call is admitted and
\* down by one exactly when the promise handed to its caller settles, and
\* changes in no other step.
C21_FailureIsLocal ==
    [][\E c \in Calls :
        /\ \A d \in Calls \ {c} : ClosureOfNext(d) = ClosureOf(d)
        /\ _pending' = _pending
                + (IF ~started[c] /\ started'[c] THEN 1 ELSE 0)
                - (IF ~Settled(c) /\ returned'[c].state # "pending" THEN 1 ELSE 0)]_vars

\* a call has been retried and then rejected by its timer, with the
\* invocations of both attempts still out; another call, issued while
\* the first was in flight, is now in flight with its timer armed and its
\* budget whole
C21_Witness_OneFailedOtherInFlight ==
    \E c, d \in Calls :
        /\ c < d
        /\ returned[c] = Rejected(TimeoutValue)
        /\ running[c] = {1, 2}
        /\ d \in InFlight /\ timers[d] = {1} /\ running[d] = {1}
        /\ promise[d] = PendingPromise /\ ~done[d]
        /\ maxRetries[d] = 1 /\ retries[d] = 1
        /\ _pending = 1

\* C22: a closed Client is never re-opened: from close() on, isOpen is
\* false, reading documentClient throws "Client already closed", and
\* openAsync throws "Client already closed" and connects nothing.
AlreadyClosed == Threw("Client already closed")
C22_ClosedIsNeverReopened ==
    [][\A i \in Clients :
        /\ _closed[i] \/ Close(i) =>
                /\ _closed'[i]
                /\ ~IsOpen(i)'
                /\ DocumentClient(i)' = AlreadyClosed
        /\ \A m \in ConnectBudgets :
                _closed[i] /\ OpenAsync(i, m, FALSE) =>
                    /\ result' = AlreadyClosed
                    /\ UNCHANGED <<_client, _open, _openClients, natives, connect, issued>>]_vars

\* an instance that was connected is closed, and openAsync was then called on it
C22_Witness_OpenAfterClose ==
    \E i \in Clients :
        /\ _closed[i] /\ _client[i] # 0 /\ _open[i] # 0
        /\ returned[connect[_open[i]]] = Resolved(ResultValue(1))
        /\ result = AlreadyClosed

\* C23: after close() on an instance that was opened for a key, whether it
\* created the connection or shared it, the next openAsync on another,
\* not yet opened instance for the same key constructs a new native
\* DocumentClient and issues a new connect request.
C23_CloseForcesNewConnection ==
    [][\A j \in Clients, m \in ConnectBudgets :
        /\ exists[j] /\ ~_closed[j] /\ _open[j] = 0
        /\ closedSince[KeyOf(config[j])]
        /\ OpenAsync(j, m, FALSE)
        => /\ natives' = natives + 1
           /\ _client'[j] = natives + 1
           /\ connect'[j] # 0
           /\ ~issued[connect'[j]] /\ issued'[connect'[j]]]_vars

\* C24: while no instance has been closed, the openAsync calls on instances
\* with the same url, authentication options, connection policy and
\* consistency level construct one native DocumentClient and issue one
\* connect request between them, and openAsync on an instance that has been
\* opened returns the promise it returned before.
OpenedFor(k) == {i \in Clients : exists[i] /\ KeyOf(config[i]) = k /\ _open[i] # 0}
OpenedKeys == {k \in Keys : OpenedFor(k) # {}}
C24_OneConnectionPerKey ==
    /\ [](  (\A i \in Clients : ~_closed[i]) =>
              /\ natives = Cardinality(OpenedKeys)
              /\ Cardinality({c \in Requests : issued[c]}) = Cardinality(OpenedKeys)
              /\ \A k \in OpenedKeys : \E i \in OpenedFor(k) :
                    /\ connect[i] # 0 /\ issued[connect[i]]
                    /\ \A j \in OpenedFor(k) :
                          _client[j] = _client[i] /\ _open[j] = i)
    /\ [][\A i \in Clients, m \in ConnectBudgets :
            ~_closed[i] /\ _open[i] # 0 /\ OpenAsync(i, m, FALSE) =>
                /\ result' = Returned(_open[i])
                /\ UNCHANGED <<_client, _open, natives, issued>>]_vars

\* every instance has been opened, none closed, and the connection is up
C24_Witness_AllShareOne ==
    /\ \A i \in Clients : exists[i] /\ ~_closed[i] /\ _open[i] = 1 /\ _client[i] = 1
    /\ natives = 1
    /\ returned[connect[1]] = Resolved(ResultValue(1))
    /\ result = Returned(1)

\* C29: createDatabaseAsync(id) resolves only when the list of a forced
\* reload contains id, and listDatabasesAsync() without reload then gives a
\* list that contains id; it rejects with "Timeout" when ceil(timeout/100)
\* polls, with a sleep after each, have found no such list.
ListDatabases(i) == resources[_databaseResources[i]]
PollsWithout(i) ==
    {c \in create[i].polls : resources[ReloadResources(c)].state = "resolved"
                             /\ create[i].id \notin resources[ReloadResources(c)].val}
IsCeiling(n, t) == n * PollInterval >= t /\ (n - 1) * PollInterval < t
CreateResolvedAtFirstPoll ==
    /\ create[1].pc = "resolved" /\ Cardinality(create[1].polls) = 1
    /\ ListDatabases(1) = ResolvedList({"x"})

\* C28: whenever the promise of openOrCreateAsync resolves, the database
\* was found in the client's list (its _self is set) or createDatabaseAsync
\* completed successfully for it; in particular it never resolves after a
\* failed creation without having found or created the database.
C28_ResolvesOnlyFoundOrCreated ==
    db.pc = "resolved" =>
        \/ db.self # NoSelf
        \/ create[db.client].pc = "resolved" /\ create[db.client].id = db.id

\* C30: a read by URI or a delete called without maxRetries, whose first
\* attempt is answered with 404, makes at least one further attempt before
\* its promise is rejected.
C30_DefaultRetriesOn404 ==
    /\ retryOn404[1] /\ maxRetries[1] = DefaultMaxRetries
    /\ log[1] # <<>> /\ log[1][1] = [a |-> 1, o |-> "E"]
    /\ returned[1] = Rejected(ErrorValue(404))
    => \E i \in DOMAIN log[1] : log[1][i].a >= 2

\* C25: overlapping calls of next()/read() on a stream that is not reset
\* are queued: at most one nextItem request is outstanding at a time, the
\* requests are made in the order of the calls, and the promise of the
\* k-th call settles with the outcome of the k-th request: the k-th item
\* of the result set, the end of the set, or the failure of that request.
Outstanding == {k \in Reads : reads[k].req # 0 /\ running[reads[k].req] # {}}
C25_ReadsAreQueued ==
    stream.resets = 0 =>
        /\ Cardinality(Outstanding) <= 1
        /\ \A j, k \in Reads :
              j < k /\ reads[k].req # 0 => reads[j].req # 0 /\ reads[j].req < reads[k].req
        /\ \A k \in Reads :
              /\ reads[k].result.state = "resolved" =>
                    reads[k].result.item = IF k <= stream.size THEN k ELSE EndOfSet
              /\ reads[k].result.state = "rejected" =>
                    /\ reads[k].req # 0
                    /\ returned[reads[k].req] = Rejected(reads[k].result.error)

\* C26: forEach(f) calls f once for each result, in order, and not after f
\* has returned false or thrown; its promise resolves to true when every
\* result of the set has been processed, to false when f returned false,
\* and is rejected when a read failed or f threw.
Results == SelectSeq(stream.delivered, LAMBDA it : it # EndOfSet)
LastOf(q) == q[Len(q)]
C26_ForEachStopsAtFalse ==
    /\ Len(each.seen) <= Len(Results) /\ Len(each.rets) = Len(each.seen)
    /\ \A i \in DOMAIN each.seen : each.seen[i] = Results[i] /\ each.seen[i] = i
    /\ \A i \in DOMAIN each.rets : i < Len(each.rets) => each.rets[i] = "go"
    /\ each.pc = "waiting" => \A i \in DOMAIN each.rets : each.rets[i] = "go"
    /\ each.pc = "resolved" /\ each.value =>
            /\ Len(each.seen) = stream.size
            /\ \A i \in DOMAIN each.rets : each.rets[i] = "go"
    /\ each.pc = "resolved" /\ ~each.value =>
            each.rets # <<>> /\ LastOf(each.rets) = "false"
    /\ each.pc = "rejected" =>
            \/ /\ each.rets # <<>> /\ LastOf(each.rets) = "throw"
               /\ each.error = ThrownValue(each.k)
            \/ /\ \A i \in DOMAIN each.rets : each.rets[i] = "go"
               /\ reads[each.k].result = [state |-> "rejected", item |-> EndOfSet,
                                          error |-> each.error]
               /\ reads[each.k].req # 0
               /\ returned[reads[each.k].req] = Rejected(each.error)

\* f returned false for the first of two results, and was not called again
C26_Witness_StoppedAtFirstOfTwo ==
    /\ each.pc = "resolved" /\ ~each.value
    /\ stream.size = 2 /\ each.seen = <<1>> /\ each.rets = <<"false">>
    /\ stream.made = 1 /\ jobs = <<>>

\* C27: the reset that resetAsync() asks for is made only when every read
\* asked for before it has completed, and before the request of any read
\* asked for after it is made.
C27_ResetAfterQueuedReads ==
    [][jobs # <<>> /\ Head(jobs).t = "reset" /\ jobs' = Tail(jobs) /\ stream._qi =>
          /\ \A k \in Reads : k <= Head(jobs).k => reads[k].state # "pending"
          /\ \A k \in Reads : k > Head(jobs).k => reads[k].req = 0]_vars

\* C31: once the promise of a call has settled (resolved, rejected by an
\* error or by its timer, or rejected because the operation threw), none
\* of the call's timeout timers and none of its scheduled retries is left
\* pending, and the wrapped operation is not invoked for the call again.
C31_SettledCallIsQuiet ==
    /\ [](\A c \in Calls :
            promise[c].state # "pending" => timers[c] = {} /\ execTimers[c] = {})
    /\ [][\A c \in Calls :
            promise[c].state # "pending" => args'[c] = args[c]]_vars

\* a call rejected by a throw of its first invocation has invoked the
\* operation a second time
InvokedAfterThrow ==
    \E c \in Calls :
        /\ promise[c] = Rejected(ThrownValue(1))
        /\ Len(args[c]) = 2

\* --- invocations
\* the first thing that happened to the call is a failure of that kind
FirstEvent(c, o) == log[c] # <<>> /\ log[c][1].o = o
Failures == {"E", "N", "T", "X"}

\* C32: the wrapped operation is invoked at most maxRetries + 1 times for
\* a call, whatever callbacks, timers and throws interleave; with
\* maxRetries = 0 a call that is admitted invokes it once, and the first
\* failure (an error report, the timer, a throw) rejects the call: with
\* the report's error, with Timeout, with the value thrown.
C32_AtMostBudgetPlusOneInvocations ==
    /\ [](\A c \in Calls :
            /\ Len(args[c]) <= maxRetries[c] + 1
            /\ started[c] => Len(args[c]) >= 1
            /\ (started[c] /\ maxRetries[c] = 0) =>
                  /\ Len(args[c]) = 1
                  /\ execTimers[c] = {}
                  /\ (\E o \in Failures : FirstEvent(c, o)) =>
                        promise[c].state = "rejected"
                  /\ FirstEvent(c, "T") => promise[c] = Rejected(TimeoutValue)
                  /\ FirstEvent(c, "X") => promise[c] = Rejected(ThrownValue(1))
                  /\ (FirstEvent(c, "E") \/ FirstEvent(c, "N")) =>
                        promise[c].val.kind = "error")
    /\ [][\A c \in Calls : \A a \in running[c], code \in Codes :
            (maxRetries[c] = 0 /\ log[c] = <<>> /\ OpCompletes(c, a, Err(code))) =>
                promise'[c] = Rejected(ErrorValue(code))]_vars

\* a call with maxRetries = 2 has used its three invocations, the timers
\* of the first two fired and the third reported an error that rejected it
C32_Witness_ThreeInvocations ==
    \E c \in Calls :
        /\ maxRetries[c] = 2 /\ Len(args[c]) = 3 /\ ~fixedPos[c]
        /\ log[c] = <<[a |-> 1, o |-> "T"], [a |-> 2, o |-> "T"], [a |-> 3, o |-> "E"]>>
        /\ returned[c].state = "rejected" /\ returned[c].val.kind = "error"

\* a call with maxRetries = 0 rejected by the timer of its only invocation
C32_Witness_DefaultRejectedByTimer ==
    \E c \in Calls :
        /\ maxRetries[c] = 0 /\ Len(args[c]) = 1
        /\ log[c] = <<[a |-> 1, o |-> "T"]>>
        /\ returned[c] = Rejected(TimeoutValue)

\* --- rounds
\* the timer firings that acted on the call
TimerRounds(c) == Cardinality({i \in DOMAIN log[c] : log[c][i].o = "T"})

\* C33: while an admitted call is unsettled, a timeout timer or a
\* scheduled retry of the call is pending; the operation is invoked at most
\* maxRetries + 1 times and at most maxRetries + 1 timers act on the call;
\* so with timers and promise reactions run fairly the call settles,
\* whether the operation reports to the callback of its attempt, to the
\* callback of an earlier attempt, or never.
C33_AdmittedCallSettles ==
    /\ [](\A c \in Calls :
            /\ (started[c] /\ promise[c].state = "pending") =>
                  timers[c] # {} \/ execTimers[c] # {}
            /\ (promise[c].state # "pending" /\ ~Settled(c)) =>
                  \E i \in DOMAIN microtasks : microtasks[i] = c
            /\ Len(args[c]) <= maxRetries[c] + 1
            /\ TimerRounds(c) <= maxRetries[c] + 1)
    /\ \A c \in Calls : started[c] ~> Settled(c)

\* a call with maxRetries = 2 whose operation never reported: three
\* timers fired and the last one rejected it
C33_Witness_NeverReported ==
    \E c \in Calls :
        /\ maxRetries[c] = 2 /\ running[c] = {1, 2, 3}
        /\ TimerRounds(c) = 3 /\ Len(log[c]) = 3
        /\ returned[c] = Rejected(TimeoutValue)

\* a call whose second invocation reported an error to the callback of the
\* first attempt, which schedules nothing, and which the timer of the second
\* attempt then rejected
C33_Witness_StaleCallbackThenTimer ==
    \E c \in Calls :
        /\ maxRetries[c] = 2 /\ fixedPos[c]
        /\ log[c] = <<[a |-> 1, o |-> "E"], [a |-> 2, o |-> "E"], [a |-> 2, o |-> "T"]>>
        /\ returned[c] = Rejected(TimeoutValue)

\* a deleteAsync on the Database object has resolved
Deleted == db.req # 0 /\ returned[db.req].state = "resolved" /\ db.pc # "deleting"

\* C34: after deleteAsync() has resolved, an openAsync() on the same
\* Database object resolves only if the database exists again, and is
\* rejected with "Database does not exist" while it does not: it is not
\* answered from the list the client read before the deletion.
C34_OpenAfterDeleteChecksAgain ==
    [][(Deleted /\ db.op = "open" /\ db.pc = "finding" /\ db'.pc # "finding") =>
          IF db.id \in server
          THEN db'.pc \in {"opened", "rejected"}
          ELSE db'.pc = "rejected" /\ db'.error = DoesNotExist(db.id)]_vars

\* C35: every call of listDatabasesAsync settles when every request
\* settles: the call that openAsync of a Database makes without forceReload
\* and the call that createDatabaseAsync makes with it do not wait for
\* ever, also not after a forced reload whose read request failed.
C35_ListCallSettles ==
    /\ db.pc = "finding" ~> db.pc \in {"opened", "rejected"}
    /\ create[1].pc \in {"reading", "listing"} ~> create[1].pc \notin {"reading", "listing"}

\* the instance whose connection promise an openAsync on instance i finds:
\* the one in its own _open, else the one registered for its key, else 0
CachedFor(i) == IF _open[i] # 0 THEN _open[i] ELSE _openClients[KeyOf(config[i])]

\* the connect request of instance o has been rejected
ConnectFailed(o) == o # 0 /\ connect[o] # 0 /\ returned[connect[o]].state = "rejected"

C36_Witness_AnewAfterClose ==
    \E i, j \in Clients :
        /\ i # j /\ _open[i] = i /\ _closed[i] /\ ConnectFailed(i)
        /\ KeyOf(config[i]) = KeyOf(config[j]) /\ _open[j] = j

\* promise p of the chain is rejected, or is pending behind a promise that is
RECURSIVE Doomed(_)
Doomed(p) ==
    \/ reads[p].state = "rejected"
    \/ p # 0 /\ reads[p].state = "pending" /\ reads[p].pc = "chained" /\ Doomed(reads[p].pred)

\* some call on the stream has been rejected
ReadFailed == \E j \in Reads : reads[j].state = "rejected"

CheckDue == Full /\ microtasks = <<>> /\ 0 \in execTimers[Starved]

\* C38: admission is not starvation-free. In every execution of the
\* schedule of FairStarve calls keep arriving and being admitted and every
\* admitted call settles; the call Starved is deferred, each of its
\* admission checks finds the counter at the ceiling, and again and again
\* such a check is due; the execution is weakly fair to the timer of
\* Starved, as it is to every other timer and to the promise reactions,
\* and Starved is never admitted. A check that defers the call again
\* leaves the state as it was, so the fairness of the timer is about the
\* checks that would admit the call.
C38_DeferredCallStarves ==
    /\ [](~started[Starved] /\ _pending <= concurrencyLimit)
    /\ [](issued[Starved] => execTimers[Starved] = {0})
    /\ [][(\E throws \in BOOLEAN : ExecFires(Starved, 0, throws)) =>
             AtCeiling(_pending, concurrencyLimit)]_vars
    /\ <>issued[Starved]
    /\ []<>CheckDue
    /\ WF_vars(ExecFires(Starved, 0, FALSE))
    /\ \A c \in Others :
          /\ \A s \in {0} \cup BurstAttempts : WF_vars(ExecFires(c, s, FALSE))
          /\ \A a \in BurstAttempts : WF_vars(TimeoutFires(c, a))
    /\ WF_vars(ThenHandler)
    /\ []<><<_pending' = _pending + 1>>_vars
    /\ \A c \in Others : (started[c] /\ ~Settled(c)) ~> Settled(c)

\* the starved call waits with its admission check armed and the counter
\* at the ceiling, while a call that arrived after it is in flight
C38_Witness_Overtaken ==
    /\ issued[Starved] /\ ~started[Starved] /\ 0 \in execTimers[Starved]
    /\ Full
    /\ \E c \in Others : c > Starved /\ started[c] /\ ~Settled(c)
====
